---- MODULE Spec2Model ----
(***************************************************************************)
(* Audio-Slicer batch core: the decode fallback chain of                   *)
(* process_audio_file (utils/processing.py), the per-file driver           *)
(* WorkThread._process_file, the three strategies of WorkThread.run, and   *)
(* the cross-thread choice rendezvous of _FallbackBridge /                 *)
(* MainWindow._request_fallback_choice (gui/mainwindow.py).                *)
(***************************************************************************)
EXTENDS Integers, Sequences, FiniteSets, TLC

\* ------------------------------------------------------------------ bounds
NumFiles == 2
MaxJobs == 2

Files == 1..NumFiles

\* Python's None, and the texts of the i18n keys the core emits.
NoneVal == "None"
FfmpegNotFoundText == "ffmpeg_not_found"
SkippedByUserText == "skipped_by_user"
DecodeFailedText == "Decode failed."
UnknownErrorText == "Unknown error."

\* i18n.text("ffmpeg_failed", language).format(error=e)
FfmpegFailedText(e) == "ffmpeg_failed:" \o e

\* Python truthiness of an optional string: None and "" are falsy.
Truthy(s) == s # NoneVal /\ s # ""

\* Python `a or b` on optional strings.
Or(a, b) == IF Truthy(a) THEN a ELSE b

\* --------------------------------------------------- decoder environments
\* What the three decoders can do on one file. A message is str(exc) or the
\* captured stderr/stdout of the transcoder; both can be the empty string.
PrimaryOutcomes == {"ok", "raises", "raises_empty"}
FfmpegOutcomes ==
    {"not_found", "rc_nonzero", "rc_nonzero_silent", "rc0_unreadable",
     "rc0_readable", "run_raises"}
LibrosaOutcomes == {"ok", "raises", "raises_empty"}
PipelineOutcomes == {"ok", "write_raises"}

FallbackModes == {"ask", "ffmpeg_then_librosa", "ffmpeg", "librosa", "skip"}
ParallelModes == {"single", "thread", "process"}
Choices == {"ffmpeg", "librosa", "cancel"}

\* soundfile.read(filename): the audio (named by the decoder that produced
\* it) or the exception it raises.
soundfile_read(p) ==
    CASE p = "ok" -> [raised |-> FALSE, audio |-> "primary", exc |-> NoneVal]
      [] p = "raises" -> [raised |-> TRUE, audio |-> NoneVal, exc |-> "E_primary"]
      [] p = "raises_empty" -> [raised |-> TRUE, audio |-> NoneVal, exc |-> ""]

resolve_ffmpeg_path(ff) == IF ff = "not_found" THEN NoneVal ELSE "ffmpeg"

\* _read_with_ffmpeg, lines 47-64: subprocess.run, the return-code test and
\* the read-back of the temp WAV. Neither subprocess.run nor the read-back is
\* inside an except clause.
FfmpegBody(ff) ==
    CASE ff = "rc_nonzero" ->
           [raised |-> FALSE, exc |-> NoneVal, audio |-> NoneVal, err |-> "E_ffmpeg"]
      [] ff = "rc_nonzero_silent" ->
           [raised |-> FALSE, exc |-> NoneVal, audio |-> NoneVal, err |-> ""]
      [] ff = "rc0_unreadable" ->
           [raised |-> TRUE, exc |-> "E_ffmpeg_read", audio |-> NoneVal, err |-> NoneVal]
      [] ff = "rc0_readable" ->
           [raised |-> FALSE, exc |-> NoneVal, audio |-> "ffmpeg", err |-> NoneVal]
      [] ff = "run_raises" ->
           [raised |-> TRUE, exc |-> "E_ffmpeg_run", audio |-> NoneVal, err |-> NoneVal]

\* What os.remove(temp_path) can do: remove the file, or raise OSError.
RemoveOutcomes == {"ok", "oserror"}

\* Lines 66-69: os.remove inside try / except OSError: pass. The state of the
\* temp file afterwards.
RemoveTemp(rm) == IF rm = "ok" THEN "removed" ELSE "remove_failed"

\* Mutant of _read_with_ffmpeg: no finally clause, the temp file is removed
\* only after a read-back that succeeded.
_read_with_ffmpeg_NoFinally(ff, rm) ==
    LET body == FfmpegBody(ff)
    IN  [raised |-> body.raised, exc |-> body.exc, audio |-> body.audio,
         err |-> body.err,
         temp |-> IF body.audio # NoneVal THEN RemoveTemp(rm) ELSE "exists"]

\* _read_with_ffmpeg, lines 39-69: the temp file is created (40-45), the body
\* runs, and the finally clause removes the file whatever the body did.
_read_with_ffmpeg(ff, rm) ==
    LET body == FfmpegBody(ff)
    IN  [raised |-> body.raised, exc |-> body.exc, audio |-> body.audio,
         err |-> body.err, temp |-> RemoveTemp(rm)]

\* _read_with_librosa: both the import and the load are inside try/except.
_read_with_librosa(lb) ==
    CASE lb = "ok" -> [audio |-> "librosa", err |-> NoneVal]
      [] lb = "raises" -> [audio |-> NoneVal, err |-> "E_librosa"]
      [] lb = "raises_empty" -> [audio |-> NoneVal, err |-> ""]

\* ------------------------------------------------------ process_audio_file
\* os.path.dirname(os.path.abspath(filename))
DirName(filename) == "dir_" \o ToString(filename)

Returned(ok, error, out_dir) ==
    [kind |-> "return", ok |-> ok, error |-> error, out_dir |-> out_dir]
Raised(exc) ==
    [kind |-> "raise", ok |-> FALSE, error |-> exc, out_dir |-> NoneVal]
NoResult == [kind |-> "none", ok |-> FALSE, error |-> NoneVal, out_dir |-> NoneVal]

\* One entry of the ordered log of a call: the operation, whether it
\* succeeded, and the message it failed with (NoneVal when there is none).
LogEntry(op, ok, err) == [op |-> op, ok |-> ok, err |-> err]

\* The fallback modes for which a failed primary decode does not return at once.
AutoFallbackModes == {"ffmpeg", "librosa", "ffmpeg_then_librosa"}

\* Mutant of StagePrimary: the early return of lines 120-121 is lost.
StagePrimary_NoEarlyReturn(fallback_mode, env) ==
    LET r == soundfile_read(env.sf)
    IN  [done |-> FALSE, ret |-> NoResult, audio |-> r.audio,
         error |-> IF r.raised THEN r.exc ELSE NoneVal, temp |-> "none",
         log |-> <<LogEntry("soundfile_read", ~r.raised, r.exc)>>]

\* Lines 115-123: the primary decoder; an unknown or "skip" mode returns the
\* primary error at once.
StagePrimary(fallback_mode, env) ==
    LET r == soundfile_read(env.sf)
        log == <<LogEntry("soundfile_read", ~r.raised, r.exc)>>
    IN  IF r.raised /\ fallback_mode \notin AutoFallbackModes
        THEN [done |-> TRUE, ret |-> Returned(FALSE, r.exc, NoneVal),
              audio |-> NoneVal, error |-> r.exc, temp |-> "none", log |-> log]
        ELSE [done |-> FALSE, ret |-> NoResult, audio |-> r.audio,
              error |-> IF r.raised THEN r.exc ELSE NoneVal, temp |-> "none",
              log |-> log]

\* Lines 126-135: the external transcoder is looked up and run.
TryFfmpeg(c, fallback_mode, env) ==
      LET ffmpeg_path == resolve_ffmpeg_path(env.ff)
          log1 == Append(c.log, LogEntry("resolve_ffmpeg_path", ffmpeg_path # NoneVal, NoneVal))
      IN  IF ffmpeg_path = NoneVal
          THEN IF fallback_mode = "ffmpeg"
               THEN [c EXCEPT !.done = TRUE, !.log = log1,
                              !.ret = Returned(FALSE, FfmpegNotFoundText, NoneVal)]
               ELSE [c EXCEPT !.log = log1]
          ELSE
            LET r == _read_with_ffmpeg(env.ff, env.rm)
                log2 == Append(log1, LogEntry("_read_with_ffmpeg", r.audio # NoneVal,
                                             IF r.raised THEN r.exc ELSE r.err))
            IN  IF r.raised
                THEN [c EXCEPT !.done = TRUE, !.log = log2, !.temp = r.temp,
                               !.ret = Raised(r.exc)]
                ELSE IF r.audio = NoneVal /\ fallback_mode = "ffmpeg"
                THEN [c EXCEPT !.done = TRUE, !.log = log2, !.temp = r.temp,
                               !.ret = Returned(FALSE, FfmpegFailedText(Or(r.err, "")), NoneVal)]
                ELSE IF r.audio = NoneVal
                THEN [c EXCEPT !.log = log2, !.temp = r.temp, !.error = r.err]
                ELSE [c EXCEPT !.log = log2, !.temp = r.temp, !.audio = r.audio]

\* Mutant of StageFfmpeg: the mode test of line 125 is lost.
StageFfmpeg_AnyMode(c, fallback_mode, env) ==
    IF c.done \/ c.audio # NoneVal THEN c ELSE TryFfmpeg(c, fallback_mode, env)

\* Lines 124-125: the transcoder stage runs when there is no audio yet and
\* the mode asks for ffmpeg.
StageFfmpeg(c, fallback_mode, env) ==
    IF c.done \/ c.audio # NoneVal
       \/ fallback_mode \notin {"ffmpeg", "ffmpeg_then_librosa"}
    THEN c
    ELSE TryFfmpeg(c, fallback_mode, env)

\* Mutant of StageLibrosa: a failure reports librosa's message alone and
\* drops the error recorded before it.
StageLibrosa_DropsRecorded(c, fallback_mode, env) ==
    IF c.done \/ c.audio # NoneVal
       \/ fallback_mode \notin {"librosa", "ffmpeg_then_librosa"}
    THEN c
    ELSE
      LET r == _read_with_librosa(env.lb)
          log1 == Append(c.log, LogEntry("_read_with_librosa", r.audio # NoneVal, r.err))
      IN  IF r.audio = NoneVal
          THEN [c EXCEPT !.done = TRUE, !.log = log1,
                         !.ret = Returned(FALSE, Or(r.err, DecodeFailedText), NoneVal)]
          ELSE [c EXCEPT !.log = log1, !.audio = r.audio]

\* Mutant of StageLibrosa: the audio test of line 136 is lost, librosa runs
\* although a decoder before it gave audio.
StageLibrosa_AfterSuccess(c, fallback_mode, env) ==
    IF c.done \/ fallback_mode \notin {"librosa", "ffmpeg_then_librosa"}
    THEN c
    ELSE
      LET r == _read_with_librosa(env.lb)
          log1 == Append(c.log, LogEntry("_read_with_librosa", r.audio # NoneVal, r.err))
      IN  IF r.audio = NoneVal
          THEN [c EXCEPT !.done = TRUE, !.log = log1,
                         !.ret = Returned(FALSE, Or(r.err, Or(c.error, DecodeFailedText)), NoneVal)]
          ELSE [c EXCEPT !.log = log1, !.audio = r.audio]

\* Lines 136-139: the decoding-library fallback.
StageLibrosa(c, fallback_mode, env) ==
    IF c.done \/ c.audio # NoneVal
       \/ fallback_mode \notin {"librosa", "ffmpeg_then_librosa"}
    THEN c
    ELSE
      LET r == _read_with_librosa(env.lb)
          log1 == Append(c.log, LogEntry("_read_with_librosa", r.audio # NoneVal, r.err))
      IN  IF r.audio = NoneVal
          THEN [c EXCEPT !.done = TRUE, !.log = log1,
                         !.ret = Returned(FALSE, Or(r.err, Or(c.error, DecodeFailedText)), NoneVal)]
          ELSE [c EXCEPT !.log = log1, !.audio = r.audio]

\* Lines 140-141.
StageNoAudio(c) ==
    IF ~c.done /\ c.audio = NoneVal
    THEN [c EXCEPT !.done = TRUE,
                   !.ret = Returned(FALSE, Or(c.error, DecodeFailedText), NoneVal)]
    ELSE c

\* Mutant of RunPipeline: the default of line 180 is lost, the output
\* directory passed in is returned as it is.
RunPipeline_NoDefaultDir(c, filename, output_dir, env) ==
    LET log1 == c.log \o <<LogEntry("analyze", TRUE, NoneVal),
                           LogEntry("segment", TRUE, NoneVal),
                           LogEntry("mkdir", TRUE, NoneVal)>>
    IN  IF env.pipe = "write_raises"
        THEN [c EXCEPT !.done = TRUE, !.ret = Raised("E_export"),
                       !.log = Append(log1, LogEntry("write", FALSE, "E_export"))]
        ELSE [c EXCEPT !.done = TRUE, !.ret = Returned(TRUE, NoneVal, output_dir),
                       !.log = Append(log1, LogEntry("write", TRUE, NoneVal))]

\* Lines 143-227 in the order of the code: the analysis of the decoded audio
\* (energy, threshold, mask: 152-169), its segmentation (170-179), the output
\* directory (180-182), then the chunks and the metadata (190-225); a write
\* that raises is not caught inside process_audio_file.
RunPipeline(c, filename, output_dir, env) ==
    LET out_dir == Or(output_dir, DirName(filename))
        log1 == c.log \o <<LogEntry("analyze", TRUE, NoneVal),
                           LogEntry("segment", TRUE, NoneVal),
                           LogEntry("mkdir", TRUE, NoneVal)>>
    IN  IF env.pipe = "write_raises"
        THEN [c EXCEPT !.done = TRUE, !.ret = Raised("E_export"),
                       !.log = Append(log1, LogEntry("write", FALSE, "E_export"))]
        ELSE [c EXCEPT !.done = TRUE, !.ret = Returned(TRUE, NoneVal, out_dir),
                       !.log = Append(log1, LogEntry("write", TRUE, NoneVal))]

\* Mutant of StagePipeline: the returns of the decode stage are lost, the
\* pipeline runs whether or not there is audio.
StagePipeline_WithoutAudio(c, filename, output_dir, env) ==
    RunPipeline(c, filename, output_dir, env)

\* Lines 143-227 are reached only when no return or exception came before.
StagePipeline(c, filename, output_dir, env) ==
    IF c.done THEN c ELSE RunPipeline(c, filename, output_dir, env)

\* process_audio_file(filename, ..., output_dir, fallback_mode, ...) on a file
\* whose decoders and export behave as env says: the result (returned tuple
\* or raised exception), the ordered log of the calls made, and the decoder
\* whose audio was segmented, and the state of the transcoder's temp file.
process_audio_file(filename, fallback_mode, output_dir, env) ==
    LET c1 == StagePrimary(fallback_mode, env)
        c2 == StageFfmpeg(c1, fallback_mode, env)
        c3 == StageLibrosa(c2, fallback_mode, env)
        c4 == StageNoAudio(c3)
        c5 == StagePipeline(c4, filename, output_dir, env)
    IN  [ret |-> c5.ret, log |-> c5.log, audio |-> c5.audio, mode |-> fallback_mode,
         temp |-> c5.temp]

Envs ==
    [sf : PrimaryOutcomes, ff : FfmpegOutcomes, lb : LibrosaOutcomes,
     pipe : PipelineOutcomes, rm : RemoveOutcomes]

\* The batch is explored over the outcomes that differ in control flow; the
\* variants that differ only in the text of a message are left to DecodeSpec,
\* and so is the failing export: in the batch it is one more exception of
\* process_audio_file, as the unreadable ffmpeg output already is.
BatchPrimaryOutcomes == {"ok", "raises"}
BatchOutputDirs == {NoneVal}
BatchEnvs ==
    [sf : BatchPrimaryOutcomes, ff : {"rc_nonzero", "rc0_unreadable", "rc0_readable"},
     lb : {"ok", "raises"}, pipe : {"ok"}, rm : {"ok"}]

\* ------------------------------------------------------------------- state
VARIABLES
    files,            \* the primary decoder's outcome on each input file
    taskList,         \* the paths held by the items of lwTaskList, in order
    ui,               \* the values in the option widgets leHopSize, leDynamicOffset
    names,            \* the path of each input file: directory, stem, extension
    naming,           \* the naming and export arguments of process_audio_file
    written,          \* per file, the paths its export wrote (NamingSpec)
    rangesCall,       \* the arguments of a _get_ranges call and what it returned
    sliceRun,         \* one run of lines 143-210: its arguments and its results
    processing,       \* MainWindow.processing
    workCount,        \* MainWindow.workCount
    workFinished,     \* MainWindow.workFinished
    last_output_dir,  \* MainWindow.last_output_dir
    batches,          \* number of batches started; the model follows the first
    options,          \* WorkThread.options
    collected,        \* what _collect_processing_options returned at the last start
    filenames,        \* WorkThread.filenames
    st,               \* where the task of each file stands
    calls,            \* per file, the process_audio_file calls made, in order
    choice,           \* per file, the value _request_fallback_choice returned
    errorEvents,      \* per file, the errorOccurred messages emitted, in order
    requests,         \* per file, how many bridge.request signals were emitted
    answered,         \* per file, the decision the dialog of its request got
    uiQueue,          \* events posted to the GUI thread, in order
    uiStack,          \* _on_request invocations in progress (nested modal loops)
    wtDone,           \* WorkThread.run has returned and finished was emitted
    reqLock,          \* MainWindow._fallback_request_lock: 0 free, else owner
    mutex,            \* _FallbackBridge.mutex: 0 free, UiThread, or owner
    bridgeChoice,     \* _FallbackBridge.choice
    waiting           \* the workers asleep in bridge.cond.wait

taskVars == <<taskList, names, naming, written, rangesCall, sliceRun>>

vars ==
    <<files, ui, taskVars, processing, workCount, workFinished, last_output_dir, batches,
      options, collected, filenames, st, calls, choice, errorEvents, requests, answered,
      uiQueue, uiStack, wtDone, reqLock, mutex, bridgeChoice, waiting>>

mainVars == <<processing, workCount, workFinished, last_output_dir, batches>>
bridgeVars == <<reqLock, mutex, bridgeChoice, waiting>>

UiThread == -1
NoOptions ==
    [parallel_mode |-> NoneVal, parallel_jobs |-> 0, fallback_mode |-> NoneVal,
     output_dir |-> NoneVal, hop_size |-> 0, dynamic_offset_db |-> 0]

\* The texts of leHopSize (preset "default") and leDynamicOffset as set at
\* construction, and the values their validators let the user enter: the
\* hop size matches \d+, so it can be 0; the offset is any double.
DefaultHopSize == 10
DefaultDynamicOffset == 6
DefaultWidgets ==
    [hop_size |-> DefaultHopSize, dynamic_offset_db |-> DefaultDynamicOffset]
WidgetValues ==
    [hop_size : {0, DefaultHopSize},
     dynamic_offset_db : {0 - DefaultDynamicOffset, DefaultDynamicOffset}]

\* The naming arguments as the widgets hold them at construction.
DefaultNaming ==
    [output_dir |-> NoneVal, name_prefix |-> "", name_suffix |-> "",
     name_timestamp |-> FALSE, export_csv |-> FALSE, export_json |-> FALSE]

\* MainWindow.__init__ (lines 85-89, 107-108) and _FallbackBridge.__init__.
InitState ==
    /\ taskList = [i \in 1..NumFiles |-> i]
    /\ written = [f \in Files |-> {}]
    /\ processing = FALSE
    /\ workCount = 0
    /\ workFinished = 0
    /\ last_output_dir = NoneVal
    /\ batches = 0
    /\ options = NoOptions
    /\ collected = [parallel_mode |-> NoneVal, fallback_mode |-> NoneVal]
    /\ filenames = <<>>
    /\ st = [f \in Files |-> "none"]
    /\ calls = [f \in Files |-> <<>>]
    /\ choice = [f \in Files |-> NoneVal]
    /\ errorEvents = [f \in Files |-> <<>>]
    /\ requests = [f \in Files |-> 0]
    /\ answered = [f \in Files |-> NoneVal]
    /\ uiQueue = <<>>
    /\ uiStack = <<>>
    /\ wtDone = FALSE
    /\ reqLock = 0
    /\ mutex = 0
    /\ bridgeChoice = NoneVal
    /\ waiting = {}

\* The task list holds NumFiles files, each in a directory of its own.
InitWith(outcomes, widgets) ==
    /\ rangesCall = NoneVal
    /\ sliceRun = NoneVal
    /\ files \in [Files -> outcomes]
    /\ ui \in widgets
    /\ names = [f \in Files |-> [dir |-> DirName(f), stem |-> "f", ext |-> "wav"]]
    /\ naming = DefaultNaming
    /\ InitState

Init == InitWith(BatchPrimaryOutcomes, {DefaultWidgets})

\* ----------------------------------------------------------------- helpers
\* The path f is in the list, and the path g comes before the path f in it.
InList(f, list) == \E i \in 1..Len(list) : list[i] = f
Before(g, f, list) ==
    \E i, j \in 1..Len(list) : i < j /\ list[i] = g /\ list[j] = f

Event(sig, f, msg) == [sig |-> sig, file |-> f, msg |-> msg]

\* An output directory in which no chunk can be written: sf.write raises.
UnwritableDir == "dir_unwritable"

\* The environments in which file f can be processed: its primary outcome is
\* a property of the file, the fallback decoders are drawn, and the export
\* fails exactly when the batch writes to the unwritable directory.
EnvsOf(f) ==
    {[e EXCEPT !.pipe = IF options.output_dir = UnwritableDir
                        THEN "write_raises" ELSE e.pipe] :
        e \in {b \in BatchEnvs : b.sf = files[f]}}

\* The positions at which a pool worker is occupied by the task of a file.
ActivePositions ==
    {"req_lock", "mutex_lock", "clear", "emit", "wait_check", "waiting",
     "woken", "unlock_mutex", "unlock_req", "call2", "write_dir"}
Active == {f \in Files : st[f] \in ActivePositions}

LastCall(f) == calls[f][Len(calls[f])]

\* self.errorOccurred.emit(filename, msg). Its slot _on_worker_error (lines
\* 383-391) shows a warning box and changes no state, so the emission is
\* recorded and nothing is queued for it.
EmitError(f, msg) ==
    /\ errorEvents' = [errorEvents EXCEPT ![f] = Append(@, msg)]
    /\ UNCHANGED uiQueue

\* Mutant of Report: only an exception is emitted, a returned failure is
\* dropped without a report.
Report_ExceptionsOnly(f, r) ==
    /\ IF r.ret.kind = "raise"
       THEN EmitError(f, r.ret.error)
       ELSE UNCHANGED <<uiQueue, errorEvents>>
    /\ UNCHANGED last_output_dir

\* The tail shared by the three call sites of _process_file (lines 278-284,
\* 310-315, 322-330): an exception or a failure is emitted as an error; after
\* a success with an output directory the worker goes on to remember it.
Report(f, r) ==
    /\ IF r.ret.kind = "raise"
       THEN EmitError(f, r.ret.error)
       ELSE IF r.ret.ok
       THEN UNCHANGED <<uiQueue, errorEvents>>
       ELSE EmitError(f, Or(r.ret.error, UnknownErrorText))
    /\ UNCHANGED last_output_dir

\* Mutant of AfterCall: the test "if ok:" is lost, the directory is stored
\* after every call that returned.
AfterCall_WithoutOk(r) ==
    IF r.ret.kind = "return" THEN "write_dir" ELSE "returned"

\* Where _process_file stands after result r: at the write of lines 283, 312,
\* 327 (if ok: if out_dir:), or at its return.
AfterCall(r) ==
    IF r.ret.kind = "return" /\ r.ret.ok /\ Truthy(r.ret.out_dir)
    THEN "write_dir" ELSE "returned"

\* ---------------------------------------------------------------- _on_start
\* Mutant of OnStart: line 210 is lost, "ask" is not rewritten for process mode.
OnStart_NoRewrite(mode, jobs, fb, outdir) ==
    /\ ~processing
    /\ batches = 0
    /\ Len(taskList) > 0
    /\ collected' = [parallel_mode |-> mode, fallback_mode |-> fb]
    /\ options' = [parallel_mode |-> mode, parallel_jobs |-> jobs,
                   fallback_mode |-> fb,
                   output_dir |-> outdir, hop_size |-> ui.hop_size,
                   dynamic_offset_db |-> ui.dynamic_offset_db]
    /\ filenames' = taskList
    /\ workCount' = Len(taskList)
    /\ workFinished' = 0
    /\ processing' = TRUE
    /\ batches' = batches + 1
    /\ st' = [f \in Files |-> IF InList(f, taskList) THEN "queued" ELSE "none"]
    /\ calls' = [f \in Files |-> <<>>]
    /\ choice' = [f \in Files |-> NoneVal]
    /\ errorEvents' = [f \in Files |-> <<>>]
    /\ requests' = [f \in Files |-> 0]
    /\ answered' = [f \in Files |-> NoneVal]
    /\ wtDone' = FALSE
    /\ UNCHANGED <<files, ui, taskVars, last_output_dir, uiQueue, uiStack, bridgeVars>>

\* Lines 178-210 and 356-377 with the process/ask warning answered Ok or not
\* needed: the options are collected, "ask" is rewritten for process mode,
\* the paths of the items are copied into a list of their own (lines
\* 356-361), the counters are reset and the worker thread is started.
OnStart(mode, jobs, fb, outdir) ==
    /\ ~processing
    /\ batches = 0
    /\ Len(taskList) > 0
    /\ collected' = [parallel_mode |-> mode, fallback_mode |-> fb]
    /\ options' = [parallel_mode |-> mode, parallel_jobs |-> jobs,
                   fallback_mode |-> IF mode = "process" /\ fb = "ask"
                                     THEN "ffmpeg_then_librosa" ELSE fb,
                   output_dir |-> outdir, hop_size |-> ui.hop_size,
                   dynamic_offset_db |-> ui.dynamic_offset_db]
    /\ filenames' = taskList
    /\ workCount' = Len(taskList)
    /\ workFinished' = 0
    /\ processing' = TRUE
    /\ batches' = batches + 1
    /\ st' = [f \in Files |-> IF InList(f, taskList) THEN "queued" ELSE "none"]
    /\ calls' = [f \in Files |-> <<>>]
    /\ choice' = [f \in Files |-> NoneVal]
    /\ errorEvents' = [f \in Files |-> <<>>]
    /\ requests' = [f \in Files |-> 0]
    /\ answered' = [f \in Files |-> NoneVal]
    /\ wtDone' = FALSE
    /\ UNCHANGED <<files, ui, taskVars, last_output_dir, uiQueue, uiStack, bridgeVars>>

\* Lines 199-209: the options are collected and the warning of process mode
\* with "ask" is answered Cancel; _on_start returns.
OnStartCancelled ==
    /\ ~processing
    /\ batches = 0
    /\ Len(taskList) > 0
    /\ collected' = [parallel_mode |-> "process", fallback_mode |-> "ask"]
    /\ UNCHANGED <<files, ui, taskVars, mainVars, options, filenames, st, calls, choice,
                   errorEvents, requests, answered, uiQueue, uiStack, wtDone,
                   bridgeVars>>

\* -------------------------------------------------------- WorkThread.run
\* Mutant of WorkList: run() reads the items of the list widget as they are
\* when it gets to them, not the list it was constructed with.
WorkList_LiveItems == taskList

\* self.filenames, the list run() iterates (lines 227, 236, 255): the paths
\* handed to WorkThread at construction (line 372).
WorkList == filenames

\* Mutant of CanStart: single mode starts tasks like a pool of parallel_jobs
\* workers instead of the for loop of lines 227-231.
CanStart_SingleAsPool(f) ==
    /\ InList(f, WorkList)
    /\ st[f] = "queued"
    /\ \A g \in Files : Before(g, f, WorkList) => st[g] # "queued"
    /\ Cardinality(Active \cup {g \in Files : st[g] = "returned"}) < options.parallel_jobs

\* A task leaves the queue: in single mode when every earlier file has had
\* its finished event emitted (lines 227-231), in thread and process mode when
\* a pool worker is free (lines 234-238, 248-256); tasks start in input order.
CanStart(f) ==
    /\ InList(f, WorkList)
    /\ st[f] = "queued"
    /\ \A g \in Files : Before(g, f, WorkList) => st[g] # "queued"
    /\ IF options.parallel_mode = "single"
       THEN \A g \in Files : Before(g, f, WorkList) => st[g] = "finished"
       ELSE Cardinality(Active) < options.parallel_jobs

\* Mutant of ProcessFileDirect: the except clause of lines 322-324 is lost, an
\* exception of process_audio_file leaves _process_file and ends the task
\* without a report.
ProcessFileDirect_Uncaught(f) ==
    /\ CanStart(f)
    /\ options.parallel_mode # "process"
    /\ options.fallback_mode # "ask"
    /\ \E env \in EnvsOf(f) :
         LET r == process_audio_file(f, options.fallback_mode, options.output_dir, env)
         IN  /\ calls' = [calls EXCEPT ![f] = Append(@, r)]
             /\ IF r.ret.kind = "raise"
                THEN /\ st' = [st EXCEPT ![f] = "aborted"]
                     /\ UNCHANGED <<last_output_dir, uiQueue, errorEvents>>
                ELSE /\ Report(f, r)
                     /\ st' = [st EXCEPT ![f] = AfterCall(r)]
    /\ UNCHANGED <<files, ui, taskVars, processing, workCount, workFinished, batches, options, collected,
                   filenames, choice, requests, answered, uiStack, wtDone,
                   bridgeVars>>

\* _process_file, lines 317-330: a fallback mode other than "ask".
ProcessFileDirect(f) ==
    /\ CanStart(f)
    /\ options.parallel_mode # "process"
    /\ options.fallback_mode # "ask"
    /\ \E env \in EnvsOf(f) :
         LET r == process_audio_file(f, options.fallback_mode, options.output_dir, env)
         IN  /\ calls' = [calls EXCEPT ![f] = Append(@, r)]
             /\ Report(f, r)
             /\ st' = [st EXCEPT ![f] = AfterCall(r)]
    /\ UNCHANGED <<files, ui, taskVars, processing, workCount, workFinished, batches, options, collected,
                   filenames, choice, requests, answered, uiStack, wtDone,
                   bridgeVars>>

\* Mutant of ProcessFileAskFirst: the except clause of lines 278-280 is lost
\* and an exception of the first call is treated like a returned failure.
ProcessFileAskFirst_AsksAfterException(f) ==
    /\ CanStart(f)
    /\ options.parallel_mode # "process"
    /\ options.fallback_mode = "ask"
    /\ \E env \in EnvsOf(f) :
         LET r == process_audio_file(f, "skip", options.output_dir, env)
         IN  /\ calls' = [calls EXCEPT ![f] = Append(@, r)]
             /\ IF r.ret.ok
                THEN /\ Report(f, r)
                     /\ st' = [st EXCEPT ![f] = AfterCall(r)]
                ELSE /\ st' = [st EXCEPT ![f] = "req_lock"]
                     /\ UNCHANGED <<last_output_dir, uiQueue, errorEvents>>
    /\ UNCHANGED <<files, ui, taskVars, processing, workCount, workFinished, batches, options, collected,
                   filenames, choice, requests, answered, uiStack, wtDone,
                   bridgeVars>>

\* _process_file, lines 272-285: mode "ask", the first call with "skip".
ProcessFileAskFirst(f) ==
    /\ CanStart(f)
    /\ options.parallel_mode # "process"
    /\ options.fallback_mode = "ask"
    /\ \E env \in EnvsOf(f) :
         LET r == process_audio_file(f, "skip", options.output_dir, env)
         IN  /\ calls' = [calls EXCEPT ![f] = Append(@, r)]
             /\ IF r.ret.kind = "raise" \/ r.ret.ok
                THEN /\ Report(f, r)
                     /\ st' = [st EXCEPT ![f] = AfterCall(r)]
                ELSE /\ st' = [st EXCEPT ![f] = "req_lock"]
                     /\ UNCHANGED <<last_output_dir, uiQueue, errorEvents>>
    /\ UNCHANGED <<files, ui, taskVars, processing, workCount, workFinished, batches, options, collected,
                   filenames, choice, requests, answered, uiStack, wtDone,
                   bridgeVars>>

\* Mutant of ProcessFileAskSecond: the final else of lines 304-309 is lost and
\* every choice other than "ffmpeg" runs the librosa branch.
ProcessFileAskSecond_ElseLibrosa(f) ==
    /\ st[f] = "call2"
    /\ \E env \in EnvsOf(f) :
         LET r == process_audio_file(f, IF choice[f] = "ffmpeg" THEN "ffmpeg" ELSE "librosa",
                                     options.output_dir, env)
         IN  /\ calls' = [calls EXCEPT ![f] = Append(@, r)]
             /\ Report(f, r)
             /\ st' = [st EXCEPT ![f] = AfterCall(r)]
    /\ UNCHANGED <<files, ui, taskVars, processing, workCount, workFinished, batches, options, collected,
                   filenames, choice, requests, answered, uiStack, wtDone,
                   bridgeVars>>

\* Mutant of ProcessFileAskSecond: the choice "ffmpeg" runs the whole chain
\* ffmpeg_then_librosa instead of the single decoder.
ProcessFileAskSecond_Chain(f) ==
    /\ st[f] = "call2"
    /\ IF choice[f] \in {"ffmpeg", "librosa"}
       THEN \E env \in EnvsOf(f) :
              LET r == process_audio_file(f, IF choice[f] = "ffmpeg"
                                             THEN "ffmpeg_then_librosa" ELSE "librosa",
                                          options.output_dir, env)
              IN  /\ calls' = [calls EXCEPT ![f] = Append(@, r)]
                  /\ Report(f, r)
                  /\ st' = [st EXCEPT ![f] = AfterCall(r)]
       ELSE /\ EmitError(f, SkippedByUserText)
            /\ st' = [st EXCEPT ![f] = "returned"]
            /\ UNCHANGED <<calls, last_output_dir>>
    /\ UNCHANGED <<files, ui, taskVars, processing, workCount, workFinished, batches, options, collected,
                   filenames, choice, requests, answered, uiStack, wtDone,
                   bridgeVars>>

\* _process_file, lines 286-315: mode "ask", after the choice was returned.
ProcessFileAskSecond(f) ==
    /\ st[f] = "call2"
    /\ IF choice[f] \in {"ffmpeg", "librosa"}
       THEN \E env \in EnvsOf(f) :
              LET r == process_audio_file(f, choice[f], options.output_dir, env)
              IN  /\ calls' = [calls EXCEPT ![f] = Append(@, r)]
                  /\ Report(f, r)
                  /\ st' = [st EXCEPT ![f] = AfterCall(r)]
       ELSE /\ EmitError(f, SkippedByUserText)
            /\ st' = [st EXCEPT ![f] = "returned"]
            /\ UNCHANGED <<calls, last_output_dir>>
    /\ UNCHANGED <<files, ui, taskVars, processing, workCount, workFinished, batches, options, collected,
                   filenames, choice, requests, answered, uiStack, wtDone,
                   bridgeVars>>

\* Mutant of WriteLastOutputDir: the directory of the file's first call is
\* stored instead of the one just returned.
WriteLastOutputDir_FirstCall(f) ==
    /\ st[f] = "write_dir"
    /\ last_output_dir' = calls[f][1].ret.out_dir
    /\ st' = [st EXCEPT ![f] = "returned"]
    /\ UNCHANGED <<files, ui, taskVars, processing, workCount, workFinished, batches, options, collected,
                   filenames, calls, choice, errorEvents, requests, answered,
                   uiQueue, uiStack, wtDone, bridgeVars>>

\* _process_file, lines 283, 312, 327: self.win.last_output_dir = out_dir,
\* executed by the worker itself with no lock held; then return True.
WriteLastOutputDir(f) ==
    /\ st[f] = "write_dir"
    /\ last_output_dir' = LastCall(f).ret.out_dir
    /\ st' = [st EXCEPT ![f] = "returned"]
    /\ UNCHANGED <<files, ui, taskVars, processing, workCount, workFinished, batches, options, collected,
                   filenames, calls, choice, errorEvents, requests, answered,
                   uiQueue, uiStack, wtDone, bridgeVars>>

\* Mutant of SingleFinally: the emit is not in a finally clause and follows
\* only a _process_file that returned True.
SingleFinally_OnlyOnSuccess(f) ==
    /\ options.parallel_mode = "single"
    /\ st[f] = "returned"
    /\ st' = [st EXCEPT ![f] = "finished"]
    /\ uiQueue' = IF errorEvents[f] = <<>>
                  THEN Append(uiQueue, Event("oneFinished", 0, NoneVal))
                  ELSE uiQueue
    /\ UNCHANGED <<files, ui, taskVars, mainVars, options, collected, filenames, calls, choice,
                   errorEvents, requests, answered, uiStack, wtDone, bridgeVars>>

\* Lines 227-231: single mode, the finally clause after _process_file.
SingleFinally(f) ==
    /\ options.parallel_mode = "single"
    /\ st[f] = "returned"
    /\ st' = [st EXCEPT ![f] = "finished"]
    /\ uiQueue' = Append(uiQueue, Event("oneFinished", 0, NoneVal))
    /\ UNCHANGED <<files, ui, taskVars, mainVars, options, collected, filenames, calls, choice,
                   errorEvents, requests, answered, uiStack, wtDone, bridgeVars>>

\* Lines 239-246: thread mode, as_completed yields the future of f. No
\* exception leaves _process_file, so only the finally clause acts.
ThreadFutureDone(f) ==
    /\ options.parallel_mode = "thread"
    /\ st[f] = "returned"
    /\ st' = [st EXCEPT ![f] = "finished"]
    /\ uiQueue' = Append(uiQueue, Event("oneFinished", 0, NoneVal))
    /\ UNCHANGED <<files, ui, taskVars, mainVars, options, collected, filenames, calls, choice,
                   errorEvents, requests, answered, uiStack, wtDone, bridgeVars>>

\* Mutant of ProcessRun: the worker process itself stores the directory in the
\* window, as a pool thread does.
ProcessRun_SharesWindow(f) ==
    /\ CanStart(f)
    /\ options.parallel_mode = "process"
    /\ \E env \in EnvsOf(f) :
         LET r == process_audio_file(f, options.fallback_mode, options.output_dir, env)
         IN  /\ calls' = [calls EXCEPT ![f] = Append(@, r)]
             /\ last_output_dir' = IF r.ret.ok THEN r.ret.out_dir ELSE last_output_dir
    /\ st' = [st EXCEPT ![f] = "proc_done"]
    /\ UNCHANGED <<files, ui, taskVars, processing, workCount, workFinished, batches, options, collected,
                   filenames, choice, errorEvents, requests, answered, uiQueue,
                   uiStack, wtDone, bridgeVars>>

\* Lines 250-254: a worker process runs process_audio_file with the options'
\* fallback mode and sends back its result or its exception.
ProcessRun(f) ==
    /\ CanStart(f)
    /\ options.parallel_mode = "process"
    /\ \E env \in EnvsOf(f) :
         calls' = [calls EXCEPT ![f] =
                     Append(@, process_audio_file(f, options.fallback_mode,
                                                  options.output_dir, env))]
    /\ st' = [st EXCEPT ![f] = "proc_done"]
    /\ UNCHANGED <<files, ui, taskVars, mainVars, options, collected, filenames, choice, errorEvents,
                   requests, answered, uiQueue, uiStack, wtDone, bridgeVars>>

\* Lines 257-269: process mode, the controlling thread merges one result.
ProcessFutureDone(f) ==
    /\ options.parallel_mode = "process"
    /\ st[f] = "proc_done"
    /\ LET r == LastCall(f)
           msg == IF r.ret.kind = "raise" THEN r.ret.error
                  ELSE Or(r.ret.error, UnknownErrorText)
           failed == r.ret.kind = "raise" \/ ~r.ret.ok
       IN  /\ last_output_dir' =
                IF ~failed /\ Truthy(r.ret.out_dir) THEN r.ret.out_dir
                ELSE last_output_dir
           /\ errorEvents' =
                IF failed THEN [errorEvents EXCEPT ![f] = Append(@, msg)]
                ELSE errorEvents
           /\ uiQueue' = Append(uiQueue, Event("oneFinished", 0, NoneVal))
    /\ st' = [st EXCEPT ![f] = "finished"]
    /\ UNCHANGED <<files, ui, taskVars, processing, workCount, workFinished, batches, options, collected,
                   filenames, calls, choice, requests, answered, uiStack, wtDone,
                   bridgeVars>>

\* run() returns once every file was handled; QThread emits finished.
RunReturns ==
    /\ processing
    /\ ~wtDone
    /\ \A f \in Files : InList(f, WorkList) => st[f] = "finished"
    /\ wtDone' = TRUE
    /\ uiQueue' = Append(uiQueue, Event("finished", 0, NoneVal))
    /\ UNCHANGED <<files, ui, taskVars, mainVars, options, collected, filenames, st, calls, choice,
                   errorEvents, requests, answered, uiStack, bridgeVars>>

\* ------------------------------------- MainWindow._request_fallback_choice
workerFrame ==
    <<files, ui, taskVars, mainVars, options, collected, filenames, calls, errorEvents, answered,
      uiStack, wtDone>>

\* Mutant of LockRequestLock: the request lock does not exclude.
LockRequestLock_NoWait(f) ==
    /\ st[f] = "req_lock"
    /\ reqLock' = f
    /\ st' = [st EXCEPT ![f] = "mutex_lock"]
    /\ UNCHANGED <<workerFrame, choice, requests, uiQueue, mutex, bridgeChoice, waiting>>

\* Line 394: self._fallback_request_lock.lock()
LockRequestLock(f) ==
    /\ st[f] = "req_lock"
    /\ reqLock = 0
    /\ reqLock' = f
    /\ st' = [st EXCEPT ![f] = "mutex_lock"]
    /\ UNCHANGED <<workerFrame, choice, requests, uiQueue, mutex, bridgeChoice, waiting>>

\* Line 397: bridge.mutex.lock()
LockBridgeMutex(f) ==
    /\ st[f] = "mutex_lock"
    /\ mutex = 0
    /\ mutex' = f
    /\ st' = [st EXCEPT ![f] = "clear"]
    /\ UNCHANGED <<workerFrame, choice, requests, uiQueue, reqLock, bridgeChoice, waiting>>

\* Mutant of ClearChoice: the previous choice is left in the bridge.
ClearChoice_Keep(f) ==
    /\ st[f] = "clear"
    /\ st' = [st EXCEPT ![f] = "emit"]
    /\ UNCHANGED <<workerFrame, choice, requests, uiQueue, reqLock, mutex,
                   bridgeChoice, waiting>>

\* Line 398: bridge.choice = None
ClearChoice(f) ==
    /\ st[f] = "clear"
    /\ bridgeChoice' = NoneVal
    /\ st' = [st EXCEPT ![f] = "emit"]
    /\ UNCHANGED <<workerFrame, choice, requests, uiQueue, reqLock, mutex, waiting>>

\* Line 399: bridge.request.emit(filename, error), queued to the GUI thread.
EmitRequest(f) ==
    /\ st[f] = "emit"
    /\ uiQueue' = Append(uiQueue, Event("request", f, LastCall(f).ret.error))
    /\ requests' = [requests EXCEPT ![f] = @ + 1]
    /\ st' = [st EXCEPT ![f] = "wait_check"]
    /\ UNCHANGED <<workerFrame, choice, reqLock, mutex, bridgeChoice, waiting>>

\* Lines 400-402: the loop test; bridge.cond.wait(bridge.mutex) releases the
\* mutex and sleeps in one step; once a choice is there it is read.
WaitOrRead(f) ==
    /\ st[f] = "wait_check"
    /\ IF bridgeChoice = NoneVal
       THEN /\ waiting' = waiting \cup {f}
            /\ mutex' = 0
            /\ st' = [st EXCEPT ![f] = "waiting"]
            /\ UNCHANGED choice
       ELSE /\ choice' = [choice EXCEPT ![f] = Or(bridgeChoice, "cancel")]
            /\ st' = [st EXCEPT ![f] = "unlock_mutex"]
            /\ UNCHANGED <<waiting, mutex>>
    /\ UNCHANGED <<workerFrame, requests, uiQueue, reqLock, bridgeChoice>>

\* Line 401, the return from wait: a woken worker takes the mutex again.
Reacquire(f) ==
    /\ st[f] = "woken"
    /\ mutex = 0
    /\ mutex' = f
    /\ st' = [st EXCEPT ![f] = "wait_check"]
    /\ UNCHANGED <<workerFrame, choice, requests, uiQueue, reqLock, bridgeChoice, waiting>>

\* Line 403: bridge.mutex.unlock()
UnlockBridgeMutex(f) ==
    /\ st[f] = "unlock_mutex"
    /\ mutex' = 0
    /\ st' = [st EXCEPT ![f] = "unlock_req"]
    /\ UNCHANGED <<workerFrame, choice, requests, uiQueue, reqLock, bridgeChoice, waiting>>

\* Mutant of UnlockRequestLock: the call returns its choice and keeps the
\* request lock.
UnlockRequestLock_Keeps(f) ==
    /\ st[f] = "unlock_req"
    /\ st' = [st EXCEPT ![f] = "call2"]
    /\ UNCHANGED <<workerFrame, choice, requests, uiQueue, reqLock, mutex, bridgeChoice,
                   waiting>>

\* Lines 404-406: return choice; finally self._fallback_request_lock.unlock()
UnlockRequestLock(f) ==
    /\ st[f] = "unlock_req"
    /\ reqLock' = 0
    /\ st' = [st EXCEPT ![f] = "call2"]
    /\ UNCHANGED <<workerFrame, choice, requests, uiQueue, mutex, bridgeChoice, waiting>>

\* ------------------------------------------------------------ GUI thread
\* The GUI thread dispatches queued events from its main loop, or from the
\* nested loop of the fallback dialog on top of the stack (msg.exec()).
Top == uiStack[Len(uiStack)]
\* Mutant of CanDispatch: an open dialog keeps queued events from their slots.
CanDispatch_OnlyMainLoop == uiStack = <<>>
CanDispatch == IF uiStack = <<>> THEN TRUE ELSE Top.pc = "dialog"
Pop == SubSeq(uiStack, 1, Len(uiStack) - 1)
SetTop(frame) == [uiStack EXCEPT ![Len(uiStack)] = frame]

uiFrame ==
    <<files, ui, taskVars, options, collected, filenames, st, calls, choice, errorEvents, requests, wtDone>>

\* MainWindow._oneFinished, lines 379-381.
UiOneFinished ==
    /\ CanDispatch
    /\ uiQueue # <<>> /\ Head(uiQueue).sig = "oneFinished"
    /\ uiQueue' = Tail(uiQueue)
    /\ workFinished' = workFinished + 1
    /\ UNCHANGED <<uiFrame, processing, workCount, last_output_dir, batches,
                   answered, uiStack, bridgeVars>>

\* _FallbackBridge._on_request, line 37: the dialog opens.
UiShowDialog ==
    /\ CanDispatch
    /\ uiQueue # <<>> /\ Head(uiQueue).sig = "request"
    /\ uiQueue' = Tail(uiQueue)
    /\ uiStack' = Append(uiStack, [file |-> Head(uiQueue).file, pc |-> "dialog",
                                   choice |-> NoneVal])
    /\ UNCHANGED <<uiFrame, mainVars, answered, bridgeVars>>

\* _show_fallback_dialog, lines 1662-1687: the user clicks a button and
\* msg.exec() returns to _on_request.
UiDialogAnswer(c) ==
    /\ uiStack # <<>> /\ Top.pc = "dialog"
    /\ uiStack' = SetTop([Top EXCEPT !.pc = "lock", !.choice = c])
    /\ answered' = [answered EXCEPT ![Top.file] = c]
    /\ UNCHANGED <<uiFrame, mainVars, uiQueue, bridgeVars>>

\* Line 38: self.mutex.lock()
UiLockMutex ==
    /\ uiStack # <<>> /\ Top.pc = "lock"
    /\ mutex = 0
    /\ mutex' = UiThread
    /\ uiStack' = SetTop([Top EXCEPT !.pc = "set"])
    /\ UNCHANGED <<uiFrame, mainVars, answered, uiQueue, reqLock, bridgeChoice, waiting>>

\* Line 39: self.choice = choice
UiSetChoice ==
    /\ uiStack # <<>> /\ Top.pc = "set"
    /\ bridgeChoice' = Top.choice
    /\ uiStack' = SetTop([Top EXCEPT !.pc = "wake"])
    /\ UNCHANGED <<uiFrame, mainVars, answered, uiQueue, reqLock, mutex, waiting>>

\* Mutant of UiWakeAll: nobody is woken.
UiWakeAll_NoWake ==
    /\ uiStack # <<>> /\ Top.pc = "wake"
    /\ uiStack' = SetTop([Top EXCEPT !.pc = "unlock"])
    /\ UNCHANGED <<uiFrame, mainVars, answered, uiQueue, bridgeVars>>

\* Line 40: self.cond.wakeAll()
UiWakeAll ==
    /\ uiStack # <<>> /\ Top.pc = "wake"
    /\ st' = [f \in Files |-> IF f \in waiting THEN "woken" ELSE st[f]]
    /\ waiting' = {}
    /\ uiStack' = SetTop([Top EXCEPT !.pc = "unlock"])
    /\ UNCHANGED <<files, ui, taskVars, options, collected, filenames, calls, choice, errorEvents, requests,
                   wtDone, mainVars, answered, uiQueue, reqLock, mutex, bridgeChoice>>

\* Line 41: self.mutex.unlock(); _on_request returns.
UiUnlockMutex ==
    /\ uiStack # <<>> /\ Top.pc = "unlock"
    /\ mutex' = 0
    /\ uiStack' = Pop
    /\ UNCHANGED <<uiFrame, mainVars, answered, uiQueue, reqLock, bridgeChoice, waiting>>

\* MainWindow._threadFinished, lines 408-413.
UiThreadFinished ==
    /\ CanDispatch
    /\ uiQueue # <<>> /\ Head(uiQueue).sig = "finished"
    /\ uiQueue' = Tail(uiQueue)
    /\ processing' = FALSE
    /\ UNCHANGED <<uiFrame, workCount, workFinished, last_output_dir, batches,
                   answered, uiStack, bridgeVars>>

\* ------------------------------------------------------------ specification
WorkerStep(f) ==
    \/ ProcessFileDirect(f)
    \/ ProcessFileAskFirst(f)
    \/ ProcessFileAskSecond(f)
    \/ WriteLastOutputDir(f)
    \/ SingleFinally(f)
    \/ ThreadFutureDone(f)
    \/ ProcessRun(f)
    \/ ProcessFutureDone(f)

BridgeStep(f) ==
    \/ LockRequestLock(f)
    \/ LockBridgeMutex(f)
    \/ ClearChoice(f)
    \/ EmitRequest(f)
    \/ WaitOrRead(f)
    \/ Reacquire(f)
    \/ UnlockBridgeMutex(f)
    \/ UnlockRequestLock(f)

UiStep ==
    \/ UiOneFinished
    \/ UiShowDialog
    \/ UiLockMutex
    \/ UiSetChoice
    \/ UiWakeAll
    \/ UiUnlockMutex
    \/ UiThreadFinished

Next ==
    \/ \E mode \in ParallelModes, jobs \in 1..MaxJobs, fb \in FallbackModes,
          outdir \in BatchOutputDirs : OnStart(mode, jobs, fb, outdir)
    \/ OnStartCancelled
    \/ \E f \in Files : WorkerStep(f)
    \/ \E f \in Files : BridgeStep(f)
    \/ RunReturns
    \/ UiStep
    \/ \E c \in Choices : UiDialogAnswer(c)

Spec == Init /\ [][Next]_vars

\* Threads that can run do run, the GUI loop dispatches what is queued, and
\* the user answers an open dialog.
FairSpec == Spec /\ WF_vars(Next)

\* ---------------------------------------------------------------- DecodeSpec
\* process_audio_file on its own: one call on one file, over every
\* decoder outcome and every fallback mode a caller passes (_process_file
\* never passes "ask", process mode has it rewritten).
CallerModes == {"skip", "ffmpeg", "librosa", "ffmpeg_then_librosa"}
OutputDirs == {NoneVal, "out"}

DecodeInit == InitWith(PrimaryOutcomes, {DefaultWidgets})

DecodeCall(f, mode, outdir, env) ==
    /\ \A g \in Files : calls[g] = <<>>
    /\ env.sf = files[f]
    /\ calls' = [calls EXCEPT ![f] = <<process_audio_file(f, mode, outdir, env)>>]
    /\ UNCHANGED <<files, ui, taskVars, mainVars, options, collected, filenames, st, choice, errorEvents,
                   requests, answered, uiQueue, uiStack, wtDone, bridgeVars>>

DecodeNext ==
    \E f \in Files, mode \in CallerModes, outdir \in OutputDirs, env \in Envs :
        DecodeCall(f, mode, outdir, env)

DecodeSpec == DecodeInit /\ [][DecodeNext]_vars

\* ---------------------------------------------------------------- ConfigSpec
\* A batch in single mode with an automatic fallback mode, started with any
\* values the option widgets can hold.
ConfigInit == InitWith(BatchPrimaryOutcomes, WidgetValues)

ConfigNext ==
    \/ \E jobs \in 1..MaxJobs, fb \in CallerModes, outdir \in BatchOutputDirs :
          OnStart("single", jobs, fb, outdir)
    \/ \E f \in Files : ProcessFileDirect(f)
    \/ \E f \in Files : WriteLastOutputDir(f)
    \/ \E f \in Files : SingleFinally(f)
    \/ RunReturns
    \/ UiOneFinished
    \/ UiThreadFinished

ConfigSpec == ConfigInit /\ [][ConfigNext]_vars

\* ---------------------------------------------------------------- NamingSpec
\* The paths process_audio_file writes (lines 180-225) for the files of one
\* batch, which share the naming arguments and the output extension.
MaxChunks == 2
OutputExt == "wav"
\* datetime.datetime.now().strftime("%Y%m%d_%H%M%S"): the second of the clock
\* at which a file is exported; two files can be exported in the same second.
Clock == {"20260101_000000", "20260101_000001"}

FileNames == [dir : {"a", "b"}, stem : {"song", "take"}, ext : {"wav", "mp3"}]

\* Line 180: output_dir or os.path.dirname(os.path.abspath(filename))
OutDirOf(name, o) == Or(o.output_dir, name.dir)

\* Line 184: os.path.basename(filename).rsplit(".", maxsplit=1)[0]; the
\* directory and the extension of the path are dropped.
BaseName(name) == name.stem

\* Mutant of FileCore: the time tag is appended whether or not name_timestamp
\* is set.
FileCore_AlwaysStamped(name, o, time_tag) ==
    o.name_prefix \o BaseName(name) \o o.name_suffix \o "_" \o time_tag

\* Lines 185-188.
FileCore(name, o, time_tag) ==
    LET file_core == o.name_prefix \o BaseName(name) \o o.name_suffix
    IN  IF o.name_timestamp THEN file_core \o "_" \o time_tag ELSE file_core

\* Line 192: os.path.join(out_dir, f"{file_core}_{i}.{output_ext}")
SegmentPath(name, o, time_tag, i) ==
    OutDirOf(name, o) \o "/" \o FileCore(name, o, time_tag) \o "_" \o ToString(i)
      \o "." \o OutputExt

\* Lines 212-225: the CSV and JSON metadata files.
MetaPaths(name, o, time_tag) ==
    LET stemPath == OutDirOf(name, o) \o "/" \o FileCore(name, o, time_tag)
    IN  (IF o.export_csv THEN {stemPath \o "_slices.csv"} ELSE {})
        \cup (IF o.export_json THEN {stemPath \o "_slices.json"} ELSE {})

OutputPaths(name, o, time_tag, nchunks) ==
    {SegmentPath(name, o, time_tag, i) : i \in 0..(nchunks - 1)}
      \cup MetaPaths(name, o, time_tag)

NamingArgs ==
    [output_dir : {NoneVal, "out"}, name_prefix : {"", "p_"}, name_suffix : {""},
     name_timestamp : BOOLEAN, export_csv : BOOLEAN, export_json : {FALSE}]

\* Distinct input files, all decodable, and one set of naming arguments.
NamingInit ==
    /\ files = [f \in Files |-> "ok"]
    /\ ui = DefaultWidgets
    /\ names \in {n \in [Files -> FileNames] : \A f, g \in Files : f # g => n[f] # n[g]}
    /\ naming \in NamingArgs
    /\ rangesCall = NoneVal
    /\ sliceRun = NoneVal
    /\ InitState

\* The export of file f into nchunks segments, at clock second time_tag.
ExportFile(f, time_tag, nchunks) ==
    /\ written[f] = {}
    /\ written' = [written EXCEPT ![f] = OutputPaths(names[f], naming, time_tag, nchunks)]
    /\ UNCHANGED <<files, ui, taskList, names, naming, rangesCall, sliceRun, mainVars, options,
                   collected, filenames, st, calls, choice, errorEvents, requests,
                   answered, uiQueue, uiStack, wtDone, bridgeVars>>

NamingNext ==
    \E f \in Files, time_tag \in Clock, nchunks \in 1..MaxChunks :
        ExportFile(f, time_tag, nchunks)

NamingSpec == NamingInit /\ [][NamingNext]_vars

\* ---------------------------------------------------------------- RangesSpec
\* _get_ranges on its own, over every list of silence intervals of a buffer
\* of at most MaxHops hops.
MaxHops == 5
\* hop_ms = hop_size (line 178), in milliseconds.
HopSizes == {1, DefaultHopSize}

\* SilenceInterval: (start_hop, end_hop), half-open, start_hop < end_hop.
IntervalsIn(total) == {iv \in (0..total) \X (0..total) : iv[1] < iv[2]}
Apart(iv, jv) == iv[2] <= jv[1] \/ jv[2] <= iv[1]

\* The list that holds the intervals of S in the order of their starts.
RECURSIVE Ascending(_)
Ascending(S) ==
    IF S = {} THEN <<>>
    ELSE LET first == CHOOSE iv \in S : \A jv \in S : iv[1] <= jv[1]
         IN  <<first>> \o Ascending(S \ {first})

\* The interval lists a buffer of total hops can have: sorted by start,
\* mutually non-overlapping, inside [0, total].
TagLists(total) ==
    {Ascending(S) : S \in {T \in SUBSET IntervalsIn(total) :
                             \A iv, jv \in T : iv # jv => Apart(iv, jv)}}

\* Mutant of _get_ranges: the trailing range of lines 238-239 is forgotten.
_get_ranges_NoTrailing(sil_tags, total_frames, hop_ms) ==
    IF Len(sil_tags) = 0
    THEN << <<0, total_frames * hop_ms>> >>
    ELSE (IF sil_tags[1][1] > 0 THEN << <<0, sil_tags[1][1] * hop_ms>> >> ELSE <<>>)
         \o [i \in 1..(Len(sil_tags) - 1) |->
               <<sil_tags[i][2] * hop_ms, sil_tags[i + 1][1] * hop_ms>>]

\* _get_ranges(sil_tags, total_frames, hop_ms), lines 230-240.
_get_ranges(sil_tags, total_frames, hop_ms) ==
    IF Len(sil_tags) = 0
    THEN << <<0, total_frames * hop_ms>> >>
    ELSE (IF sil_tags[1][1] > 0 THEN << <<0, sil_tags[1][1] * hop_ms>> >> ELSE <<>>)
         \o [i \in 1..(Len(sil_tags) - 1) |->
               <<sil_tags[i][2] * hop_ms, sil_tags[i + 1][1] * hop_ms>>]
         \o (IF sil_tags[Len(sil_tags)][2] < total_frames
             THEN << <<sil_tags[Len(sil_tags)][2] * hop_ms, total_frames * hop_ms>> >>
             ELSE <<>>)

RangesArgs ==
    UNION {[sil_tags : TagLists(total), total_frames : {total}, hop_ms : HopSizes,
            returned : {FALSE}, ranges : {<<>>}] : total \in 1..MaxHops}

RangesInit ==
    /\ files = [f \in Files |-> "ok"]
    /\ ui = DefaultWidgets
    /\ names = [f \in Files |-> [dir |-> DirName(f), stem |-> "f", ext |-> "wav"]]
    /\ naming = DefaultNaming
    /\ rangesCall \in RangesArgs
    /\ sliceRun = NoneVal
    /\ InitState

\* Line 179: ranges = _get_ranges(sil_tags, total_frames, hop_ms)
GetRanges ==
    /\ ~rangesCall.returned
    /\ rangesCall' = [rangesCall EXCEPT
                        !.returned = TRUE,
                        !.ranges = _get_ranges(rangesCall.sil_tags,
                                               rangesCall.total_frames,
                                               rangesCall.hop_ms)]
    /\ UNCHANGED <<files, ui, taskList, names, naming, written, sliceRun, mainVars, options,
                   collected, filenames, st, calls, choice, errorEvents, requests,
                   answered, uiQueue, uiStack, wtDone, bridgeVars>>

RangesSpec == RangesInit /\ [][GetRanges]_vars

\* ----------------------------------------------------------------- SliceSpec
\* Lines 143-210 of process_audio_file on decoded audio. The buffer is taken
\* as its energy profile, one value in dB per hop; the classes and functions
\* of audio_slicer.utils.slicer2 are modelled as the specification describes
\* FrameEnergyAnalyzer, ThresholdEstimator, VoiceActivityDetector,
\* SegmentBoundaryResolver and AudioSegmenter.
MaxProfile == 4
EnergyLevels == {-60, -42, -20}
Profiles == UNION {[1..n -> EnergyLevels] : n \in 1..MaxProfile}

\* An optional value: None, or the value.
Nothing == {}
Some(v) == {v}
The(x) == CHOOSE v \in x : TRUE

\* Python's round(a / b) for integers a >= 0, b > 0: to the nearest integer,
\* a tie to the even one.
PyRound(a, b) ==
    LET q == a \div b
        r == a % b
    IN  IF 2 * r < b THEN q
        ELSE IF 2 * r > b THEN q + 1
        ELSE IF q % 2 = 0 THEN q ELSE q + 1

\* Milliseconds to hops: integer rounding with a minimum of 1 hop.
ToHops(ms, hop_size) ==
    IF PyRound(ms, hop_size) < 1 THEN 1 ELSE PyRound(ms, hop_size)

\* The k-th smallest value of a profile.
RECURSIVE Smallest(_, _)
Smallest(profile, k) ==
    LET lowest == CHOOSE i \in 1..Len(profile) :
                    \A j \in 1..Len(profile) : profile[i] <= profile[j]
    IN  IF k = 1 THEN profile[lowest]
        ELSE Smallest([i \in 1..(Len(profile) - 1) |->
                         IF i < lowest THEN profile[i] ELSE profile[i + 1]], k - 1)

DynamicFloorDb == -80
DynamicCeilingDb == -10

\* ThresholdEstimator.estimate_dynamic: the 20th percentile of the profile
\* plus offset_db, clamped to [-80, -10].
estimate_dynamic_threshold_db(rms_list, offset_db) ==
    LET rank == (Len(rms_list) + 4) \div 5
        raw == Smallest(rms_list, rank) + offset_db
    IN  IF raw < DynamicFloorDb THEN DynamicFloorDb
        ELSE IF raw > DynamicCeilingDb THEN DynamicCeilingDb
        ELSE raw

\* VoiceActivityDetector.build_mask: a hop is voice if its energy exceeds
\* threshold_db - sensitivity_db; every voice region is then extended forward
\* by hangover_frames hops.
build_vad_mask(rms_list, threshold_db, sensitivity_db, hangover_frames) ==
    LET voice == [h \in 1..Len(rms_list) |-> rms_list[h] > threshold_db - sensitivity_db]
    IN  [h \in 1..Len(rms_list) |->
           \E j \in 1..h : h - j <= hangover_frames /\ voice[j]]

\* Steps 1 and 2 of SegmentBoundaryResolver: the hops classified silent, by
\* the mask if there is one, else by the threshold, and the maximal runs of
\* silent hops as half-open intervals of 0-based hops.
SilentHops(rms_list, threshold_db, vad_mask) ==
    {h \in 1..Len(rms_list) :
       IF vad_mask # Nothing THEN ~The(vad_mask)[h] ELSE rms_list[h] < threshold_db}

RawRuns(silent, n) ==
    {run \in (0..n) \X (0..n) :
       /\ run[1] < run[2]
       /\ \A h \in (run[1] + 1)..run[2] : h \in silent
       /\ run[1] = 0 \/ run[1] \notin silent
       /\ run[2] = n \/ (run[2] + 1) \notin silent}

\* Step 4: a run longer than max_sil_kept is cut down to max_sil_kept hops
\* around its quietest hop.
TrimRun(run, rms_list, max_sil_kept) ==
    IF run[2] - run[1] <= max_sil_kept THEN run
    ELSE LET quietest == CHOOSE h \in (run[1] + 1)..run[2] :
                           /\ \A j \in (run[1] + 1)..run[2] : rms_list[h] <= rms_list[j]
                           /\ \A j \in (run[1] + 1)..(h - 1) : rms_list[j] > rms_list[h]
             start == IF quietest - 1 + max_sil_kept > run[2]
                      THEN run[2] - max_sil_kept ELSE quietest - 1
         IN  <<start, start + max_sil_kept>>

\* Step 5, left to right: a boundary that would leave a voiced segment
\* shorter than min_length before it is dropped.
RECURSIVE EnforceMinLength(_, _, _)
EnforceMinLength(runs, last_end, min_length) ==
    IF runs = <<>> THEN <<>>
    ELSE LET run == Head(runs)
             voiced == run[1] - last_end
         IN  IF voiced > 0 /\ voiced < min_length
             THEN EnforceMinLength(Tail(runs), last_end, min_length)
             ELSE <<run>> \o EnforceMinLength(Tail(runs), run[2], min_length)

\* SegmentBoundaryResolver.resolve, steps 1-6: the silence intervals in
\* ascending order.
resolve(rms_list, threshold_db, vad_mask, min_length, min_interval, max_sil_kept) ==
    LET raw == RawRuns(SilentHops(rms_list, threshold_db, vad_mask), Len(rms_list))
        long == {run \in raw : run[2] - run[1] >= min_interval}
        kept == {TrimRun(run, rms_list, max_sil_kept) : run \in long}
    IN  EnforceMinLength(Ascending(kept), 0, min_length)

\* AudioSegmenter.cut: one chunk per voiced range between and around the
\* intervals, in hops, and the whole buffer as one chunk when there is none.
slice(sil_tags, total_frames) ==
    LET inSilence == {h \in 1..total_frames :
                        \E i \in 1..Len(sil_tags) :
                          sil_tags[i][1] < h /\ h <= sil_tags[i][2]}
        voiced == Ascending(RawRuns((1..total_frames) \ inSilence, total_frames))
    IN  IF voiced = <<>> THEN << <<0, total_frames>> >> ELSE voiced

\* Mutant of MakeSlicer: min_interval is passed where max_sil_kept belongs.
MakeSlicer_SwapsLengths(a) ==
    [threshold_db |-> a.threshold_db,
     min_length |-> ToHops(a.min_length, a.hop_size),
     min_interval |-> ToHops(a.min_interval, a.hop_size),
     max_sil_kept |-> ToHops(a.min_interval, a.hop_size)]

\* Lines 144-151: Slicer(sr, threshold=threshold_db, min_length, min_interval,
\* hop_size, max_sil_kept=max_silence); the Slicer holds its lengths in hops.
MakeSlicer(a) ==
    [threshold_db |-> a.threshold_db,
     min_length |-> ToHops(a.min_length, a.hop_size),
     min_interval |-> ToHops(a.min_interval, a.hop_size),
     max_sil_kept |-> ToHops(a.max_silence, a.hop_size)]

\* Mutant of BaseThreshold: the mask is always built on the static threshold.
BaseThreshold_Static(dynamic_threshold_db, slicer) == slicer.threshold_db

\* Line 160: base_threshold = dynamic_threshold_db if it is not None, else
\* slicer.threshold_db.
BaseThreshold(dynamic_threshold_db, slicer) ==
    IF dynamic_threshold_db # Nothing THEN The(dynamic_threshold_db)
    ELSE slicer.threshold_db

\* Mutant of HangoverFrames: the quotient is truncated instead of rounded.
HangoverFrames_Truncates(vad_hangover_ms, hop_size) ==
    IF vad_hangover_ms > 0 /\ hop_size > 0
    THEN (IF vad_hangover_ms \div hop_size < 1 THEN 1 ELSE vad_hangover_ms \div hop_size)
    ELSE 0

\* Lines 161-163: hangover_frames = max(1, int(round(vad_hangover_ms / hop_size)))
\* when both are positive, else 0.
HangoverFrames(vad_hangover_ms, hop_size) ==
    IF vad_hangover_ms > 0 /\ hop_size > 0
    THEN (IF PyRound(vad_hangover_ms, hop_size) < 1 THEN 1
          ELSE PyRound(vad_hangover_ms, hop_size))
    ELSE 0

\* Slicer.get_slice_tags(audio, dynamic_threshold_db, vad_mask, rms_list): the
\* dynamic threshold, when one is passed, takes the place of the Slicer's own.
ResolveThreshold(dynamic_threshold_db, slicer) ==
    IF dynamic_threshold_db # Nothing THEN The(dynamic_threshold_db)
    ELSE slicer.threshold_db

\* Lines 190-210: one record per chunk, in the order of the chunks.
SliceRecords(nchunks, ranges, name, o, time_tag, filename) ==
    [k \in 1..nchunks |->
       LET known == k <= Len(ranges)
       IN  [index |-> k - 1,
            start_ms |-> IF known THEN Some(ranges[k][1]) ELSE Nothing,
            end_ms |-> IF known THEN Some(ranges[k][2]) ELSE Nothing,
            length_ms |-> IF known THEN Some(ranges[k][2] - ranges[k][1]) ELSE Nothing,
            output_path |-> SegmentPath(name, o, time_tag, k - 1),
            source_file |-> filename]]

\* Lines 143-210 on the decoded audio of a file: what was computed, what was
\* passed on, the second read from the clock if it was read (lines 186-187),
\* and the records of the chunks written.
SliceTail(a, name, o, time_tag, filename) ==
    LET slicer == MakeSlicer(a)
        rms_list == IF a.dynamic_enabled \/ a.vad_enabled THEN Some(a.profile) ELSE Nothing
        dynamic_threshold_db ==
            IF a.dynamic_enabled /\ rms_list # Nothing
            THEN Some(estimate_dynamic_threshold_db(The(rms_list), a.dynamic_offset_db))
            ELSE Nothing
        masked == a.vad_enabled /\ rms_list # Nothing
        base_threshold == BaseThreshold(dynamic_threshold_db, slicer)
        hangover_frames == HangoverFrames(a.vad_hangover_ms, a.hop_size)
        vad_mask == IF masked
                    THEN Some(build_vad_mask(The(rms_list), base_threshold,
                                             a.vad_sensitivity_db, hangover_frames))
                    ELSE Nothing
        resolve_threshold == ResolveThreshold(dynamic_threshold_db, slicer)
        sil_tags == resolve(a.profile, resolve_threshold, vad_mask, slicer.min_length,
                            slicer.min_interval, slicer.max_sil_kept)
        total_frames == Len(a.profile)
        chunks == slice(sil_tags, total_frames)
        ranges == _get_ranges(sil_tags, total_frames, a.hop_size)
    IN  [estimated |-> dynamic_threshold_db # Nothing,
         dynamic_threshold_db |-> dynamic_threshold_db,
         mask_threshold |-> IF masked THEN Some(base_threshold) ELSE Nothing,
         hangover_frames |-> IF masked THEN Some(hangover_frames) ELSE Nothing,
         resolve_threshold |-> resolve_threshold,
         max_sil_kept |-> slicer.max_sil_kept,
         sil_tags |-> sil_tags,
         total_frames |-> total_frames,
         chunks |-> chunks,
         ranges |-> ranges,
         time_tag |-> IF o.name_timestamp THEN Some(time_tag) ELSE Nothing,
         records |-> SliceRecords(Len(chunks), ranges, name, o, time_tag, filename)]

DefaultThresholdDb == -40
DefaultVadSensitivity == 6
\* The lengths in milliseconds the runs are explored with, at a hop of 10 ms.
LengthsMs == {10, 20}

SliceArgs(profiles, hops, hangovers) ==
    [profile : profiles, threshold_db : {DefaultThresholdDb},
     min_length : LengthsMs, min_interval : LengthsMs, max_silence : LengthsMs,
     hop_size : hops,
     dynamic_enabled : BOOLEAN, dynamic_offset_db : {DefaultDynamicOffset},
     vad_enabled : BOOLEAN, vad_sensitivity_db : {DefaultVadSensitivity},
     vad_hangover_ms : hangovers]

\* A decoded file waits for lines 143-210 with the arguments args and the
\* naming arguments of namings.
SliceInitWith(args, namings) ==
    /\ files = [f \in Files |-> "ok"]
    /\ ui = DefaultWidgets
    /\ names = [f \in Files |-> [dir |-> DirName(f), stem |-> "f", ext |-> "wav"]]
    /\ naming \in namings
    /\ rangesCall = NoneVal
    /\ sliceRun \in [args : args, runs : {<<>>}]
    /\ InitState

SliceInit == SliceInitWith(SliceArgs(Profiles, {DefaultHopSize}, {0, DefaultHopSize}),
                           {DefaultNaming})

\* One run of the pipeline on the first file, at clock second time_tag.
RunSlice(time_tag) ==
    /\ sliceRun' = [sliceRun EXCEPT !.runs =
                      Append(@, SliceTail(sliceRun.args, names[1], naming, time_tag, 1))]
    /\ UNCHANGED <<files, ui, taskList, names, naming, written, rangesCall, mainVars, options,
                   collected, filenames, st, calls, choice, errorEvents, requests,
                   answered, uiQueue, uiStack, wtDone, bridgeVars>>

\* process_audio_file called on the decoded file.
SliceFile(time_tag) == sliceRun.runs = <<>> /\ RunSlice(time_tag)

SliceNext == \E time_tag \in Clock : SliceFile(time_tag)

SliceSpec == SliceInit /\ [][SliceNext]_vars

\* ----------------------------------------------------------------- RerunSpec
\* The same file processed twice with the same arguments, over every setting
\* of the naming arguments; the output directory is emptied in between.
RerunProfiles == {profile \in Profiles : Len(profile) = 3}

RerunInit ==
    SliceInitWith(SliceArgs(RerunProfiles, {DefaultHopSize}, {0}), NamingArgs)

\* process_audio_file called again on the same file.
SliceAgain(time_tag) == Len(sliceRun.runs) = 1 /\ RunSlice(time_tag)

RerunNext ==
    \/ \E time_tag \in Clock : SliceFile(time_tag)
    \/ \E time_tag \in Clock : SliceAgain(time_tag)

RerunSpec == RerunInit /\ [][RerunNext]_vars

\* ---------------------------------------------------------------- ExportSpec
\* A batch of decodable files, in single or thread mode, whose export is
\* followed write by write: the segments in order (lines 191-195), then the CSV
\* and the JSON file (lines 212-225); any one of the writes may raise.
WriteOrder(name, o, time_tag, nchunks) ==
    [i \in 1..nchunks |-> SegmentPath(name, o, time_tag, i - 1)]
      \o (IF o.export_csv
          THEN <<OutDirOf(name, o) \o "/" \o FileCore(name, o, time_tag) \o "_slices.csv">>
          ELSE <<>>)
      \o (IF o.export_json
          THEN <<OutDirOf(name, o) \o "/" \o FileCore(name, o, time_tag) \o "_slices.json">>
          ELSE <<>>)

\* The exception of a write that fails names the file it was writing.
ExportErrorText(path) == "E_export " \o path

\* Mutant of ExportedPaths: a failed export removes what it had written.
ExportedPaths_RollsBack(order, fail_at) ==
    IF fail_at = 0 THEN {order[i] : i \in 1..Len(order)} ELSE {}

\* The files on disk after the writes of order, of which write fail_at raised
\* (0: none did): nothing in lines 190-227 removes a file already written.
ExportedPaths(order, fail_at) ==
    {order[i] : i \in 1..(IF fail_at = 0 THEN Len(order) ELSE fail_at - 1)}

ExportNaming == {[DefaultNaming EXCEPT !.export_csv = c] : c \in BOOLEAN}

ExportInit ==
    /\ files = [f \in Files |-> "ok"]
    /\ ui = DefaultWidgets
    /\ names = [f \in Files |-> [dir |-> DirName(f), stem |-> "f", ext |-> "wav"]]
    /\ naming \in ExportNaming
    /\ rangesCall = NoneVal
    /\ sliceRun = NoneVal
    /\ InitState

\* _process_file, lines 317-330, on a decodable file: process_audio_file
\* exports nchunks segments at clock second time_tag and write fail_at raises.
\* The call is recorded with the number of chunks the Slicer returned.
ProcessFileExport(f, time_tag, nchunks, fail_at) ==
    /\ CanStart(f)
    /\ options.parallel_mode # "process"
    /\ options.fallback_mode # "ask"
    /\ LET order == WriteOrder(names[f], naming, time_tag, nchunks)
           env == [sf |-> files[f], ff |-> "rc0_readable", lb |-> "ok",
                   pipe |-> IF fail_at = 0 THEN "ok" ELSE "write_raises", rm |-> "ok"]
           r0 == process_audio_file(f, options.fallback_mode, options.output_dir, env)
           r == [ret |-> IF fail_at = 0 THEN r0.ret
                         ELSE Raised(ExportErrorText(order[fail_at])),
                 log |-> r0.log, audio |-> r0.audio, mode |-> r0.mode, temp |-> r0.temp,
                 nchunks |-> nchunks]
       IN  /\ fail_at <= Len(order)
           /\ calls' = [calls EXCEPT ![f] = Append(@, r)]
           /\ Report(f, r)
           /\ st' = [st EXCEPT ![f] = AfterCall(r)]
           /\ written' = [written EXCEPT ![f] = ExportedPaths(order, fail_at)]
    /\ UNCHANGED <<files, ui, taskList, names, naming, rangesCall, sliceRun, processing, workCount,
                   workFinished, batches, options, collected, filenames, choice, requests,
                   answered, uiStack, wtDone, bridgeVars>>

ExportNext ==
    \/ \E mode \in {"single", "thread"}, outdir \in BatchOutputDirs :
          OnStart(mode, MaxJobs, "ffmpeg_then_librosa", outdir)
    \/ \E f \in Files, time_tag \in Clock, nchunks \in 1..MaxChunks,
          fail_at \in 0..(MaxChunks + 1) : ProcessFileExport(f, time_tag, nchunks, fail_at)
    \/ \E f \in Files : WriteLastOutputDir(f)
    \/ \E f \in Files : SingleFinally(f)
    \/ \E f \in Files : ThreadFutureDone(f)
    \/ RunReturns
    \/ UiOneFinished
    \/ UiThreadFinished

ExportSpec == ExportInit /\ [][ExportNext]_vars


\* ------------------------------------------------------------------ VadSpec
\* Lines 143-210 on short files over the hop sizes and hangover times the
\* option widgets can hold (both validated as digits): hops of 1, 4 and 10 ms
\* and every hangover from 0 to MaxHangoverMs.
MaxHangoverMs == 25
VadHopSizes == {1, 4, DefaultHopSize}
VadProfiles == {profile \in Profiles : Len(profile) = 1}

VadInit ==
    SliceInitWith(SliceArgs(VadProfiles, VadHopSizes, 0..MaxHangoverMs), {DefaultNaming})

VadSpec == VadInit /\ [][SliceNext]_vars


\* ----------------------------------------------------------------- ListSpec
\* A batch in single mode with fallback mode ask during which the user goes on editing
\* the task list: dropEvent and the Remove button are not disabled by
\* _setProcessing and their handlers do not test self.processing. The items
\* are told apart by their paths, so a path that is in the list is not
\* dropped on it a second time.
\* dropEvent, lines 1808-1822: an item with the dropped path is appended. No
\* event reaches the window while a modal dialog is open.
DropEvent(f) ==
    /\ uiStack = <<>>
    /\ ~InList(f, taskList)
    /\ taskList' = Append(taskList, f)
    /\ UNCHANGED <<files, ui, names, naming, written, rangesCall, sliceRun, mainVars,
                   options, collected, filenames, st, calls, choice, errorEvents,
                   requests, answered, uiQueue, uiStack, wtDone, bridgeVars>>

\* _on_remove_audio_file, lines 153-158: the current item, at row i, is taken
\* out of the list.
RemoveAudioFile(i) ==
    /\ uiStack = <<>>
    /\ i \in 1..Len(taskList)
    /\ taskList' = [k \in 1..(Len(taskList) - 1) |->
                      IF k < i THEN taskList[k] ELSE taskList[k + 1]]
    /\ UNCHANGED <<files, ui, names, naming, written, rangesCall, sliceRun, mainVars,
                   options, collected, filenames, st, calls, choice, errorEvents,
                   requests, answered, uiQueue, uiStack, wtDone, bridgeVars>>

ListNext ==
    \/ \E outdir \in BatchOutputDirs : OnStart("single", MaxJobs, "ask", outdir)
    \/ \E f \in Files : DropEvent(f)
    \/ \E i \in 1..NumFiles : RemoveAudioFile(i)
    \/ \E f \in Files :
          \/ ProcessFileAskFirst(f)
          \/ ProcessFileAskSecond(f)
          \/ WriteLastOutputDir(f)
          \/ SingleFinally(f)
    \/ \E f \in Files : BridgeStep(f)
    \/ RunReturns
    \/ UiStep
    \/ \E c \in Choices : UiDialogAnswer(c)

ListSpec == Init /\ [][ListNext]_vars


\* ------------------------------------------------------------------ DirSpec
\* A batch started in a window that remembers the output directory of an
\* earlier batch: _on_start does not reset last_output_dir.
EarlierDir == "dir_earlier"

DirInit ==
    /\ rangesCall = NoneVal
    /\ sliceRun = NoneVal
    /\ files \in [Files -> BatchPrimaryOutcomes]
    /\ ui = DefaultWidgets
    /\ names = [f \in Files |-> [dir |-> DirName(f), stem |-> "f", ext |-> "wav"]]
    /\ naming = DefaultNaming
    /\ taskList = [i \in 1..NumFiles |-> i]
    /\ written = [f \in Files |-> {}]
    /\ processing = FALSE
    /\ workCount = 0
    /\ workFinished = 0
    /\ last_output_dir = EarlierDir
    /\ batches = 0
    /\ options = NoOptions
    /\ collected = [parallel_mode |-> NoneVal, fallback_mode |-> NoneVal]
    /\ filenames = <<>>
    /\ st = [f \in Files |-> "none"]
    /\ calls = [f \in Files |-> <<>>]
    /\ choice = [f \in Files |-> NoneVal]
    /\ errorEvents = [f \in Files |-> <<>>]
    /\ requests = [f \in Files |-> 0]
    /\ answered = [f \in Files |-> NoneVal]
    /\ uiQueue = <<>>
    /\ uiStack = <<>>
    /\ wtDone = FALSE
    /\ reqLock = 0
    /\ mutex = 0
    /\ bridgeChoice = NoneVal
    /\ waiting = {}

DirSpec == DirInit /\ [][Next]_vars

\* ---------------------------------------------------------------- BatchSpec
\* The Start button's slot called at any moment, a batch under way or not.
\* Mutant of StartRequest: _on_start without the test of lines 179-181.
StartRequest_NoTest ==
    \E mode \in ParallelModes, jobs \in 1..MaxJobs, fb \in FallbackModes,
       outdir \in BatchOutputDirs :
        /\ Len(taskList) > 0
        /\ collected' = [parallel_mode |-> mode, fallback_mode |-> fb]
        /\ options' = [parallel_mode |-> mode, parallel_jobs |-> jobs,
                       fallback_mode |-> IF mode = "process" /\ fb = "ask"
                                         THEN "ffmpeg_then_librosa" ELSE fb,
                       output_dir |-> outdir, hop_size |-> ui.hop_size,
                       dynamic_offset_db |-> ui.dynamic_offset_db]
        /\ filenames' = taskList
        /\ workCount' = Len(taskList)
        /\ workFinished' = 0
        /\ processing' = TRUE
        /\ batches' = IF batches < NumFiles THEN batches + 1 ELSE batches
        /\ wtDone' = FALSE
        /\ UNCHANGED <<files, ui, taskVars, last_output_dir, st, calls, choice,
                       errorEvents, requests, answered, uiQueue, uiStack, bridgeVars>>

\* _on_start, lines 178-377: while self.processing is set the slot shows
\* _warningProcessNotFinished and returns (lines 179-181); otherwise it
\* starts the batch with the options collected at line 199.
StartRequest ==
    IF processing
    THEN UNCHANGED vars
    ELSE \E mode \in ParallelModes, jobs \in 1..MaxJobs, fb \in FallbackModes,
            outdir \in BatchOutputDirs : OnStart(mode, jobs, fb, outdir)

BatchNext ==
    \/ StartRequest
    \/ OnStartCancelled
    \/ \E f \in Files : WorkerStep(f)
    \/ \E f \in Files : BridgeStep(f)
    \/ RunReturns
    \/ UiStep
    \/ \E c \in Choices : UiDialogAnswer(c)

BatchSpec == Init /\ [][BatchNext]_vars

\* ------------------------------------------------------------------ AskSpec
\* A batch in fallback mode ask, in single or thread mode, over files that
\* decode or not and an output directory that can be written or not.
AskOutputDirs == {NoneVal, UnwritableDir}

AskNext ==
    \/ \E mode \in {"single", "thread"}, jobs \in 1..MaxJobs, outdir \in AskOutputDirs :
          OnStart(mode, jobs, "ask", outdir)
    \/ \E f \in Files :
          \/ ProcessFileAskFirst(f)
          \/ ProcessFileAskSecond(f)
          \/ WriteLastOutputDir(f)
          \/ SingleFinally(f)
          \/ ThreadFutureDone(f)
    \/ \E f \in Files : BridgeStep(f)
    \/ RunReturns
    \/ UiStep
    \/ \E c \in Choices : UiDialogAnswer(c)

AskSpec == Init /\ [][AskNext]_vars

\* ===================================================================== claims
\* Every process_audio_file call recorded so far, with the file it was on.
AllCalls == UNION {{<<f, i>> : i \in 1..Len(calls[f])} : f \in Files}
CallAt(fi) == calls[fi[1]][fi[2]]

Positions(r, ops) == {i \in 1..Len(r.log) : r.log[i].op \in ops}
Invoked(r, ops) == Positions(r, ops) # {}
FailedAt(r, ops) == {i \in Positions(r, ops) : ~r.log[i].ok}
PrimaryFailed(r) == ~r.log[1].ok

FfmpegOps == {"resolve_ffmpeg_path", "_read_with_ffmpeg"}
LibrosaOps == {"_read_with_librosa"}
ExportOps == {"mkdir", "write"}
\* The transcoder stage failed: no ffmpeg was found, or it ran and gave no audio.
FfmpegFailed(r) == FailedAt(r, FfmpegOps) # {}
LibrosaFailed(r) == FailedAt(r, LibrosaOps) # {}
\* The call ended without decoded audio.
DecodeFailed(r) == r.audio = NoneVal
CallFailed(r) == r.ret.kind = "raise" \/ ~r.ret.ok

\* C1: in mode ffmpeg_then_librosa, after the primary decoder fails, the
\* transcoder stage comes first, librosa is never invoked before it nor after
\* it produced audio, and the decode fails only when both fallbacks failed.
C1_FfmpegThenLibrosaOrder ==
    \A fi \in AllCalls :
      LET r == CallAt(fi) IN
      (r.mode = "ffmpeg_then_librosa" /\ PrimaryFailed(r)) =>
        /\ Len(r.log) >= 2 /\ r.log[2].op = "resolve_ffmpeg_path"
        /\ \A i \in Positions(r, LibrosaOps), j \in Positions(r, FfmpegOps) : j < i
        /\ r.audio = "ffmpeg" => ~Invoked(r, LibrosaOps)
        /\ DecodeFailed(r) => FfmpegFailed(r) /\ LibrosaFailed(r)

\* C2: in mode ffmpeg_then_librosa every transcoder failure of the kinds the
\* claim lists (not found, non-zero exit, exit 0 with an unreadable WAV) is
\* followed by a librosa attempt on the same file, and the transcoder's audio
\* is used only when it ran and its WAV was read.
C2_TranscoderFailureTriesLibrosa ==
    \A fi \in AllCalls :
      LET r == CallAt(fi) IN
      (r.mode = "ffmpeg_then_librosa" /\ PrimaryFailed(r)) =>
        /\ \A j \in FailedAt(r, FfmpegOps) :
             r.log[j].err # "E_ffmpeg_run" =>
               \E i \in Positions(r, LibrosaOps) : j < i
        /\ r.audio = "ffmpeg" =>
             \E j \in Positions(r, {"_read_with_ffmpeg"}) : r.log[j].ok

\* C3: in mode skip a failed primary decode invokes no fallback decoder and
\* returns (False, primary error, None).
C3_SkipReturnsPrimaryError ==
    \A fi \in AllCalls :
      LET r == CallAt(fi) IN
      (r.mode = "skip" /\ PrimaryFailed(r)) =>
        /\ ~Invoked(r, FfmpegOps \cup LibrosaOps \cup ExportOps)
        /\ r.ret = Returned(FALSE, soundfile_read(files[fi[1]]).exc, NoneVal)

C3_Witness ==
    \E fi \in AllCalls : CallAt(fi).mode = "skip" /\ PrimaryFailed(CallAt(fi))

\* C4: in mode ffmpeg (librosa) exactly one fallback decoder is tried after
\* the primary fails, the other is never invoked, and the failure of the one
\* tried is the failure of the call.
C4_SingleFallbackDecoder ==
    \A fi \in AllCalls :
      LET r == CallAt(fi) IN
      /\ (r.mode = "ffmpeg" /\ PrimaryFailed(r)) =>
           /\ Cardinality(Positions(r, {"resolve_ffmpeg_path"})) = 1
           /\ Cardinality(Positions(r, {"_read_with_ffmpeg"})) <= 1
           /\ ~Invoked(r, LibrosaOps)
           /\ FfmpegFailed(r) => CallFailed(r) /\ ~Invoked(r, ExportOps)
      /\ (r.mode = "librosa" /\ PrimaryFailed(r)) =>
           /\ Cardinality(Positions(r, LibrosaOps)) = 1
           /\ ~Invoked(r, FfmpegOps)
           /\ LibrosaFailed(r) => CallFailed(r) /\ ~Invoked(r, ExportOps)

C4_Witness ==
    \E fi \in AllCalls :
      /\ CallAt(fi).mode = "ffmpeg"
      /\ Invoked(CallAt(fi), {"_read_with_ffmpeg"})
      /\ FfmpegFailed(CallAt(fi)) /\ CallFailed(CallAt(fi))

DecodeStageOps == {"soundfile_read"} \cup FfmpegOps \cup LibrosaOps
DecoderOps == {"soundfile_read", "_read_with_ffmpeg", "_read_with_librosa"}
DecoderName(op) ==
    CASE op = "soundfile_read" -> "primary"
      [] op = "_read_with_ffmpeg" -> "ffmpeg"
      [] op = "_read_with_librosa" -> "librosa"

Max(S) == CHOOSE x \in S : \A y \in S : y <= x
Min(S) == CHOOSE x \in S : \A y \in S : x <= y
LastDecodePos(r) == Max(Positions(r, DecodeStageOps))

\* The error a failed stage stands for in the result: the not-found text, the
\* ffmpeg_failed text around the transcoder's output, or the message itself.
ErrorOf(r, e) ==
    CASE e.op = "resolve_ffmpeg_path" -> FfmpegNotFoundText
      [] e.op = "_read_with_ffmpeg" /\ r.ret.kind = "return" -> FfmpegFailedText(e.err)
      [] OTHER -> e.err

\* The result uses the first decoder that succeeded, and none is tried after it.
FirstSuccessWins(r) ==
    r.audio # NoneVal =>
      LET k == Min({i \in Positions(r, DecoderOps) : r.log[i].ok})
      IN  /\ r.audio = DecoderName(r.log[k].op)
          /\ \A i \in Positions(r, DecodeStageOps) : i <= k

\* C5 as claimed: the first successful decode is used and, when every
\* attempted decoder fails, the reported error is that of the last decoder
\* attempted, not of an earlier one.
C5_LastDecoderError ==
    \A fi \in AllCalls :
      LET r == CallAt(fi) IN
      /\ FirstSuccessWins(r)
      /\ DecodeFailed(r) => r.ret.error = ErrorOf(r, r.log[LastDecodePos(r)])

\* The error recorded before librosa ran: the message of the last failed
\* soundfile.read or transcoder run (a missing ffmpeg records nothing).
RecordedBefore(r, k) ==
    r.log[Max({i \in Positions(r, {"soundfile_read", "_read_with_ffmpeg"}) : i < k})].err

\* C5 as amended: as claimed, except that an empty librosa message makes the
\* call report the error recorded from the previous failed decode, or
\* "Decode failed." when that is empty too.
C5_LastNonEmptyError ==
    \A fi \in AllCalls :
      LET r == CallAt(fi)
          k == LastDecodePos(r)
      IN  /\ FirstSuccessWins(r)
          /\ DecodeFailed(r) =>
               r.ret.error =
                 IF r.log[k].op = "_read_with_librosa" /\ ~Truthy(r.log[k].err)
                 THEN Or(RecordedBefore(r, k), DecodeFailedText)
                 ELSE ErrorOf(r, r.log[k])

C5_Witness ==
    \E fi \in AllCalls :
      LET r == CallAt(fi) IN
      /\ DecodeFailed(r)
      /\ r.log[LastDecodePos(r)].op = "_read_with_librosa"
      /\ r.log[LastDecodePos(r)].err = ""
      /\ r.ret.error = "E_primary"

\* ------------------------------------------------------------ the ask mode
TaskReturned(f) == st[f] \in {"returned", "finished"}
AskMode == options.fallback_mode = "ask"

\* C6: in mode ask, when the primary decode fails and the choice is cancel,
\* no fallback decoder is invoked, nothing is written, and the file ends as
\* one error event carrying the skipped-by-user text, which is not the decode
\* error, with its directory not remembered.
C6_CancelIsSkippedByUser ==
    \A f \in Files :
      (AskMode /\ choice[f] = "cancel" /\ TaskReturned(f)) =>
        /\ Len(calls[f]) = 1
        /\ PrimaryFailed(calls[f][1])
        /\ ~Invoked(calls[f][1], FfmpegOps \cup LibrosaOps \cup ExportOps)
        /\ errorEvents[f] = <<SkippedByUserText>>
        /\ calls[f][1].ret.error # SkippedByUserText
        /\ last_output_dir # Or(options.output_dir, DirName(f))

C6_Witness ==
    \E f \in Files : AskMode /\ choice[f] = "cancel" /\ st[f] = "finished"

\* What _process_file emits for result r in a single-decoder mode (lines
\* 322-330): the exception, nothing on success, else the returned error.
DirectErrors(r) ==
    IF r.ret.kind = "raise" THEN <<r.ret.error>>
    ELSE IF r.ret.ok THEN <<>>
    ELSE <<Or(r.ret.error, UnknownErrorText)>>

OtherDecoderOps(c) == IF c = "ffmpeg" THEN LibrosaOps ELSE FfmpegOps

\* C7: in mode ask, after the primary decode failed and the choice is ffmpeg
\* (librosa), the file goes on as process_audio_file does in that
\* single-decoder mode: only the chosen fallback decoder is invoked, and its
\* failure is the one error of the file.
C7_ChoiceIsSingleDecoderMode ==
    \A f \in Files :
      (AskMode /\ choice[f] \in {"ffmpeg", "librosa"} /\ TaskReturned(f)) =>
        /\ Len(calls[f]) = 2
        /\ ~Invoked(calls[f][1], FfmpegOps \cup LibrosaOps)
        /\ \E env \in EnvsOf(f) :
             calls[f][2] = process_audio_file(f, choice[f], options.output_dir, env)
        /\ ~Invoked(calls[f][2], OtherDecoderOps(choice[f]))
        /\ errorEvents[f] = DirectErrors(calls[f][2])
        /\ CallFailed(calls[f][2]) => Len(errorEvents[f]) = 1

C7_Witness ==
    /\ \E f \in Files :
         /\ AskMode /\ choice[f] = "ffmpeg" /\ st[f] = "finished"
         /\ FfmpegFailed(calls[f][2])
    /\ \E f \in Files :
         /\ AskMode /\ choice[f] = "librosa" /\ st[f] = "finished"
         /\ LibrosaFailed(calls[f][2])

\* ------------------------------------------------------ the choice bridge
\* The workers whose request was emitted and not yet answered to them.
Outstanding == {f \in Files : st[f] \in {"wait_check", "waiting", "woken"}}
\* The requests the user has before them or coming: queued, or in an open dialog.
Unanswered ==
    Cardinality({i \in 1..Len(uiQueue) : uiQueue[i].sig = "request"})
    + Cardinality({i \in 1..Len(uiStack) : uiStack[i].pc = "dialog"})

\* C8: at most one fallback-choice request is outstanding at any time, and
\* the user never has two unanswered requests.
C8_OneOutstandingRequest ==
    /\ Cardinality(Outstanding) <= 1
    /\ Unanswered <= 1
    /\ Len(uiStack) <= 1

C8_Witness ==
    \E f, g \in Files : f # g /\ st[f] = "waiting" /\ st[g] = "req_lock"

\* C9: _request_fallback_choice returns only after the dialog of that very
\* request was answered, and returns that answer.
C9_ReturnsOwnDecision ==
    \A f \in Files :
      choice[f] # NoneVal => answered[f] # NoneVal /\ choice[f] = answered[f]

C9_Witness ==
    \E f, g \in Files :
      /\ f # g
      /\ choice[f] # NoneVal /\ choice[g] # NoneVal /\ choice[f] # choice[g]

\* C10: no lost wakeup and no deadlock: when the user answers every dialog,
\* every call of _request_fallback_choice returns.
C10_EveryRequestReturns ==
    \A f \in Files : (st[f] = "req_lock") ~> (st[f] = "call2")

C10_Witness ==
    \E f, g \in Files :
      /\ f # g
      /\ choice[f] # NoneVal /\ TaskReturned(f)
      /\ st[g] = "waiting"

\* ------------------------------------------------------ the batch scheduler
ThreadMode == options.parallel_mode = "thread"
\* The request of f was emitted and its dialog is not answered yet.
PendingChoice(f) == st[f] \in {"wait_check", "waiting"} /\ answered[f] = NoneVal
BridgePositions == ActivePositions \ {"call2", "write_dir"}

\* C11: in thread mode with parallel_jobs >= 2 and mode ask, while a worker
\* awaits a choice, a file that decodes through the primary decoder is not
\* held up: its task never enters the choice hand-off, its future is
\* collectable as soon as it returned, and the GUI thread keeps dispatching
\* the finished events although the dialog is open.
C11_OtherWorkersContinue ==
    \A f, g \in Files :
      (ThreadMode /\ AskMode /\ options.parallel_jobs >= 2
       /\ PendingChoice(f) /\ g # f /\ files[g] = "ok") =>
        /\ st[g] \notin BridgePositions
        /\ CanStart(g) => ENABLED ProcessFileAskFirst(g)
        /\ st[g] = "returned" => ENABLED ThreadFutureDone(g)
        /\ uiQueue # <<>> => ENABLED (UiOneFinished \/ UiShowDialog)

C11_Witness ==
    \E f, g \in Files :
      /\ ThreadMode /\ AskMode /\ options.parallel_jobs >= 2
      /\ st[f] = "waiting" /\ answered[f] = NoneVal
      /\ Len(uiStack) = 1
      /\ st[g] = "finished" /\ calls[g][1].ret.ok
      /\ workFinished = 1

ProcessMode == options.parallel_mode = "process"
AskedProcessWithAsk ==
    collected.parallel_mode = "process" /\ collected.fallback_mode = "ask"

\* C12: a start with parallel_mode process and fallback_mode ask either runs
\* no batch at all, or has the mode rewritten before the first file starts:
\* every file of the batch is dispatched with the one automatic mode of the
\* options, and no worker process ever gets the mode ask.
C12_ProcessNeverAsks ==
    /\ AskedProcessWithAsk =>
         \/ batches = 0 /\ ~processing /\ AllCalls = {}
                        /\ \A f \in Files : st[f] = "none"
         \/ /\ batches = 1 /\ ProcessMode
            /\ options.fallback_mode \in AutoFallbackModes
            /\ \A fi \in AllCalls : CallAt(fi).mode = options.fallback_mode
    /\ ProcessMode =>
         /\ options.fallback_mode # "ask"
         /\ \A fi \in AllCalls : CallAt(fi).mode # "ask"
         /\ \A f \in Files : st[f] \notin BridgePositions /\ requests[f] = 0

C12_Witness ==
    /\ AskedProcessWithAsk /\ batches = 1
    /\ \A f \in Files : st[f] = "finished" /\ Len(calls[f]) = 1
    /\ \E f \in Files : PrimaryFailed(calls[f][1])

\* A worker stands before a call of process_audio_file: a task that can start
\* (lines 227-256) or the second call of mode ask (lines 289-309). The call
\* returns or raises whatever the decoders do, so its step is always there.
CallReady(f) == CanStart(f) \/ st[f] = "call2"

\* Some thread of the batch can take a step: a worker, the collecting loop of
\* run, the GUI thread, or the user at an open dialog.
BatchCanStep ==
    IF \E f \in Files : CallReady(f) THEN TRUE
    ELSE IF ENABLED (UiStep \/ RunReturns \/ \E c \in Choices : UiDialogAnswer(c))
    THEN TRUE
    ELSE ENABLED (\E f \in Files : BridgeStep(f) \/ WorkerStep(f))

\* The one error a finished file has against it, if any: the exception or the
\* error of its last call, or the skipped-by-user text after a cancel.
ErrorsRecorded(f) ==
    IF AskMode /\ choice[f] = "cancel" THEN <<SkippedByUserText>>
    ELSE DirectErrors(LastCall(f))

\* C13: in every parallel mode a failure or exception on one file does not
\* abort the batch: while the batch is on, some thread can always go on, run
\* returns only when every file was submitted and is finished, and a finished
\* file has its failure, and nothing else, recorded against it.
C13_FailureDoesNotAbortBatch ==
    /\ processing => BatchCanStep
    /\ wtDone => \A f \in Files : st[f] = "finished"
    /\ \A f \in Files :
         st[f] = "finished" =>
           /\ Len(calls[f]) >= 1
           /\ errorEvents[f] = ErrorsRecorded(f)
           /\ (CallFailed(LastCall(f)) \/ LastCall(f).ret.kind = "raise")
                => Len(errorEvents[f]) = 1

\* A batch that ran to its end although a file raised and another failed.
C13_Witness ==
    /\ wtDone
    /\ \E f, g \in Files :
         /\ f < g
         /\ LastCall(f).ret.kind = "raise" /\ errorEvents[f] # <<>>
         /\ st[g] = "finished" /\ Len(calls[g]) >= 1

\* The oneFinished events emitted and not yet handled by _oneFinished.
QueuedFinished ==
    Cardinality({i \in 1..Len(uiQueue) : uiQueue[i].sig = "oneFinished"})
FinishedFiles == {f \in Files : st[f] = "finished"}

C14_CounterState ==
    /\ workFinished + QueuedFinished = Cardinality(FinishedFiles)
    /\ \A f \in FinishedFiles : Len(calls[f]) >= 1
    /\ workFinished <= workCount
    /\ batches = 1 => workCount = NumFiles
    /\ (batches = 1 /\ ~processing) => workFinished = workCount

C14_CounterStep ==
    /\ workFinished' >= workFinished
    /\ workFinished' <= workFinished + 1

\* C14: every file of the batch has one finished event emitted for it, after
\* its pipeline ended, whatever the outcome, and each event adds one to the
\* counter: the counter never decreases, never exceeds the number of files,
\* and equals it when the batch has ended.
C14_FinishedCounter == []C14_CounterState /\ [][C14_CounterStep]_vars

C14_Witness ==
    /\ batches = 1 /\ ~processing /\ workFinished = NumFiles
    /\ \E f, g \in Files :
         /\ LastCall(f).ret.kind = "raise"
         /\ LastCall(g).ret.kind = "return"

SingleMode == options.parallel_mode = "single"
\* The task of f has begun: its first process_audio_file call was made.
Begun(f) == st[f] \notin {"none", "queued"}

\* C15: in single mode the files are processed in input order, one at a
\* time: a file's pipeline has not begun unless every earlier file is
\* finished with its finished event emitted, also while an earlier file
\* waits for a fallback choice.
C15_SingleInOrder ==
    SingleMode =>
      /\ \A f, g \in Files :
           (f < g /\ Begun(g)) => st[f] = "finished"
      /\ \A f, g \in Files :
           (f < g /\ calls[g] # <<>>) => calls[f] # <<>>
      /\ Cardinality({f \in Files : Begun(f) /\ st[f] # "finished"}) <= 1

C15_Witness ==
    /\ SingleMode /\ options.parallel_jobs >= 2
    /\ \E f, g \in Files :
         /\ f < g
         /\ st[f] = "waiting" /\ answered[f] = NoneVal
         /\ st[g] = "queued"

\* The workers standing at the write of last_output_dir.
Writers == {f \in Files : st[f] = "write_dir"}
HoldsLock(f) == reqLock = f \/ mutex = f

Succeeded(f) ==
    st[f] \in {"returned", "finished"} /\ calls[f] # <<>> /\ LastCall(f).ret.ok

C16_SharedState ==
    /\ last_output_dir # NoneVal =>
         \E f \in Files : Succeeded(f) /\ last_output_dir = LastCall(f).ret.out_dir
    /\ (\E f \in Files : Succeeded(f)) => last_output_dir # NoneVal

C16_SharedStep ==
    /\ workFinished' # workFinished =>
         \/ uiQueue # <<>> /\ Head(uiQueue).sig = "oneFinished"
                          /\ uiQueue' = Tail(uiQueue) /\ st' = st
         \/ batches' # batches
    /\ (last_output_dir' # last_output_dir /\ ~ProcessMode) =>
         \E f \in Writers :
           /\ st'[f] = "returned"
           /\ last_output_dir' = LastCall(f).ret.out_dir
           /\ \A g \in Files \ {f} : st'[g] = st[g]

MergedInStep(f) == st[f] = "proc_done" /\ st'[f] = "finished"

C17_ProcessState ==
    ProcessMode =>
      \A f \in Files :
        /\ st[f] \in {"queued", "proc_done", "finished"}
        /\ st[f] # "finished" => errorEvents[f] = <<>>
        /\ st[f] = "finished" => errorEvents[f] = DirectErrors(LastCall(f))

C17_ProcessStep ==
    ProcessMode =>
      /\ last_output_dir' # last_output_dir =>
           \E f \in Files :
             /\ MergedInStep(f)
             /\ LastCall(f).ret.ok /\ last_output_dir' = LastCall(f).ret.out_dir
      /\ \A f \in Files :
           errorEvents'[f] # errorEvents[f] => MergedInStep(f)
      /\ \A f \in Files :
           (st[f] = "queued" /\ st'[f] = "proc_done") =>
             /\ last_output_dir' = last_output_dir
             /\ errorEvents' = errorEvents
             /\ uiQueue' = uiQueue /\ workFinished' = workFinished

\* C17: in process mode a worker process changes nothing of the scheduler's
\* state but the result it returns; the last output directory and the error
\* reports change only when the controlling thread merges a returned result.
C17_ProcessWorkersShareNothing == []C17_ProcessState /\ [][C17_ProcessStep]_vars

C17_Witness ==
    /\ ProcessMode /\ wtDone
    /\ \E f, g \in Files :
         /\ LastCall(f).ret.ok /\ last_output_dir = LastCall(f).ret.out_dir
         /\ errorEvents[g] # <<>>

\* The option values a batch may run with: a positive hop size, a
\* non-negative offset, at least one job.
ValidOptions(o) ==
    o.hop_size > 0 /\ o.dynamic_offset_db >= 0 /\ o.parallel_jobs >= 1

\* C18: a batch whose options hold a non-positive hop size, a negative offset
\* or parallel_jobs < 1 is rejected before any file is processed: no decode
\* is attempted under such options.
C18_InvalidOptionsRejected ==
    AllCalls # {} => ValidOptions(options)

\* C19: for two distinct input files of one batch, no segment path or
\* metadata path written for one is a path written for the other.
C19_OutputPathsDisjoint ==
    \A f, g \in Files :
      (f # g /\ names[f] # names[g]) => written[f] \cap written[g] = {}

RanFfmpeg(r) == Invoked(r, {"_read_with_ffmpeg"})

\* C20 as stated: after _read_with_ffmpeg has returned or raised, on every
\* exit path, the temp WAV no longer exists.
C20_TempWavGone ==
    \A fi \in AllCalls :
      LET r == CallAt(fi) IN
      /\ RanFfmpeg(r) => r.temp = "removed"
      /\ ~RanFfmpeg(r) => r.temp = "none"

\* C20 amended: on every exit path of _read_with_ffmpeg (non-zero exit code,
\* exit code 0 with unreadable WAV, subprocess error, success) the removal of
\* the temp WAV is attempted; the file is gone unless os.remove itself fails,
\* and then it is left while the call ends as it would have.
C20_TempWavRemovalAttempted ==
    \A fi \in AllCalls :
      LET r == CallAt(fi) IN
      /\ RanFfmpeg(r) => r.temp \in {"removed", "remove_failed"}
      /\ ~RanFfmpeg(r) => r.temp = "none"

C20_Witness ==
    \E fi \in AllCalls :
      /\ RanFfmpeg(CallAt(fi))
      /\ CallAt(fi).ret.kind = "raise"
      /\ CallAt(fi).temp = "removed"

\* ------------------------------------------------------- voiced ranges
\* C21: for every list of silence intervals, the empty list and the single
\* interval that spans the whole buffer included, _get_ranges returns at
\* least one range; for the empty list it returns exactly the one range
\* (0, total_frames * hop_ms).
C21_AtLeastOneRange ==
    rangesCall.returned =>
      /\ Len(rangesCall.ranges) >= 1
      /\ rangesCall.sil_tags = <<>> =>
           rangesCall.ranges = << <<0, rangesCall.total_frames * rangesCall.hop_ms>> >>

\* Hop h lies in a silence interval; hop h lies in a returned range.
InInterval(h) ==
    \E i \in 1..Len(rangesCall.sil_tags) :
      rangesCall.sil_tags[i][1] <= h /\ h < rangesCall.sil_tags[i][2]
InRange(h) ==
    \E i \in 1..Len(rangesCall.ranges) :
      /\ rangesCall.ranges[i][1] <= h * rangesCall.hop_ms
      /\ (h + 1) * rangesCall.hop_ms <= rangesCall.ranges[i][2]

\* The summed lengths of a list of (start, end) pairs.
RECURSIVE Duration(_)
Duration(pairs) ==
    IF pairs = <<>> THEN 0
    ELSE (Head(pairs)[2] - Head(pairs)[1]) + Duration(Tail(pairs))

\* C22: for every sorted, non-overlapping list of intervals inside
\* [0, total_frames], _get_ranges returns the complementary ranges in
\* ascending order: no two ranges overlap, no range meets an interval, every
\* hop of the buffer is in an interval or in a range and never in both, and
\* the durations of ranges and intervals add up to the buffer's duration.
C22_ComplementaryRanges ==
    rangesCall.returned =>
      LET ranges == rangesCall.ranges
          tags == rangesCall.sil_tags
          hop_ms == rangesCall.hop_ms
      IN  /\ \A i \in 1..Len(ranges) : ranges[i][1] <= ranges[i][2]
          /\ \A i, j \in 1..Len(ranges) : i < j => ranges[i][2] <= ranges[j][1]
          /\ \A i \in 1..Len(ranges), k \in 1..Len(tags) :
               \/ ranges[i][2] <= tags[k][1] * hop_ms
               \/ tags[k][2] * hop_ms <= ranges[i][1]
          /\ \A h \in 0..(rangesCall.total_frames - 1) : InInterval(h) # InRange(h)
          /\ Duration(ranges) + Duration(tags) * hop_ms
               = rangesCall.total_frames * hop_ms

\* Two intervals inside the buffer: a leading, a middle and a trailing range.
C22_Witness ==
    /\ rangesCall.returned
    /\ Len(rangesCall.sil_tags) = 2
    /\ Len(rangesCall.ranges) = 3
    /\ rangesCall.hop_ms = DefaultHopSize

\* ------------------------------------------------------- export failure
\* The writes file f's last call had to make, in order, when it read
\* time_tag from the clock.
OrderOf(f, time_tag) == WriteOrder(names[f], naming, time_tag, LastCall(f).nchunks)

\* The export of file f raised at write k of its writes.
ExportFailedAt(f, time_tag, k) ==
    /\ calls[f] # <<>>
    /\ LastCall(f).ret.kind = "raise"
    /\ k \in 1..Len(OrderOf(f, time_tag))
    /\ LastCall(f).ret.error = ExportErrorText(OrderOf(f, time_tag)[k])

\* Some thread of the batch can take a step: a task can start, or a worker,
\* the loop of run or the GUI thread has a step.
ExportCanStep ==
    IF \E f \in Files : CanStart(f) THEN TRUE
    ELSE ENABLED (\/ \E f \in Files : \/ WriteLastOutputDir(f)
                                      \/ SingleFinally(f)
                                      \/ ThreadFutureDone(f)
                  \/ RunReturns
                  \/ UiOneFinished
                  \/ UiThreadFinished)

C23_ChunksKept ==
    /\ \A f \in Files, time_tag \in Clock, k \in 1..(MaxChunks + 1) :
         ExportFailedAt(f, time_tag, k) =>
           /\ \A i \in 1..(k - 1) : OrderOf(f, time_tag)[i] \in written[f]
           /\ OrderOf(f, time_tag)[k] \notin written[f]
           /\ errorEvents[f] = <<LastCall(f).ret.error>>
           /\ st[f] \in {"returned", "finished"}
    /\ processing => ExportCanStep
    /\ wtDone => \A f \in Files : st[f] = "finished"

C23_NothingRemoved == \A f \in Files : written[f] \subseteq written'[f]

\* C23: when the write of chunk k or of a metadata file fails, the chunks
\* 0..k-1 already written for the file stay on disk, nothing written is ever
\* removed, the file is reported as failed with that one error, and the batch
\* goes on with the other files until every file is finished.
C23_ExportFailureKeepsChunks == []C23_ChunksKept /\ [][C23_NothingRemoved]_vars

\* The first file failed at its second or a later write, a later file was
\* exported whole, and the batch ran to its end.
C23_Witness ==
    /\ wtDone
    /\ \E f, g \in Files :
         /\ f < g
         /\ LastCall(f).ret.kind = "raise" /\ written[f] # {}
         /\ LastCall(g).ret.ok /\ Cardinality(written[g]) > 1

\* ------------------------------------------------------------ repeated runs
\* The segment boundaries of a run: its records without the output paths.
Boundaries(run) ==
    [k \in 1..Len(run.records) |->
       [index |-> run.records[k].index, start_ms |-> run.records[k].start_ms,
        end_ms |-> run.records[k].end_ms, length_ms |-> run.records[k].length_ms,
        source_file |-> run.records[k].source_file]]

C25_OrderedTrimmedIntervals ==
    \A r \in 1..Len(sliceRun.runs) :
      LET tags == sliceRun.runs[r].sil_tags
          limit == ToHops(sliceRun.args.max_silence, sliceRun.args.hop_size)
      IN  /\ \A k \in 1..Len(tags) :
                /\ 0 <= tags[k][1]
                /\ tags[k][1] < tags[k][2]
                /\ tags[k][2] <= sliceRun.runs[r].total_frames
                /\ tags[k][2] - tags[k][1] <= limit
          /\ \A j, k \in 1..Len(tags) : j < k => tags[j][2] <= tags[k][1]

\* A file that opens with two silent hops and has a second silence later,
\* resolved by the static threshold with one hop of silence kept: the first
\* run was trimmed and two intervals were emitted.
C25_Witness ==
    /\ Len(sliceRun.runs) = 1
    /\ ~sliceRun.args.dynamic_enabled /\ ~sliceRun.args.vad_enabled
    /\ ToHops(sliceRun.args.max_silence, sliceRun.args.hop_size) = 1
    /\ Len(sliceRun.args.profile) = 4
    /\ sliceRun.args.profile[1] < sliceRun.args.threshold_db
    /\ sliceRun.args.profile[2] < sliceRun.args.threshold_db
    /\ Len(sliceRun.runs[1].sil_tags) = 2
    /\ sliceRun.runs[1].sil_tags[1][2] - sliceRun.runs[1].sil_tags[1][1] = 1


AnalysisOps == {"analyze", "segment"}
\* The positions of the decode attempts of a call that gave audio.
DecodedAt(r) == {j \in Positions(r, DecoderOps) : r.log[j].ok}

\* C26: in every call the stages come in the order decode, analyze, segment,
\* export: the analysis, the segmentation, the creation of the output
\* directory and every write come after a decode attempt of that call that
\* succeeded and after every decode attempt, in that order, and a call whose
\* decode attempts all failed analyses nothing, creates no directory and
\* writes nothing.
C26_StagesInOrder ==
    \A fi \in AllCalls :
      LET r == CallAt(fi) IN
      /\ \A i \in Positions(r, AnalysisOps \cup ExportOps) :
           /\ \E j \in DecodedAt(r) : j < i
           /\ \A j \in Positions(r, DecodeStageOps) : j < i
      /\ \A i \in Positions(r, {"analyze"}), j \in Positions(r, {"segment"}) : i < j
      /\ \A i \in Positions(r, {"segment"}), j \in Positions(r, {"mkdir"}) : i < j
      /\ \A i \in Positions(r, {"mkdir"}), j \in Positions(r, {"write"}) : i < j
      /\ DecodedAt(r) = {} => ~Invoked(r, AnalysisOps \cup ExportOps)

\* A call whose primary decoder and transcoder failed and whose librosa
\* decode succeeded, and which went on to export.
C26_Witness ==
    \E fi \in AllCalls :
      /\ PrimaryFailed(CallAt(fi))
      /\ FfmpegFailed(CallAt(fi))
      /\ CallAt(fi).audio = "librosa"
      /\ Invoked(CallAt(fi), {"write"})


FallbackOps == FfmpegOps \cup LibrosaOps

\* C27: whatever the fallback mode of the batch, a call invokes the
\* transcoder or librosa only after the primary decoder, invoked first in
\* that call, has failed; a call whose primary decode succeeded invokes
\* neither; and a choice request is issued for a file only after a call on it
\* whose primary decode failed, so none is issued for a file the primary
\* decoder reads.
C27_FallbackOnlyAfterPrimaryFailure ==
    /\ \A fi \in AllCalls :
         LET r == CallAt(fi) IN
         /\ r.log[1].op = "soundfile_read"
         /\ Positions(r, {"soundfile_read"}) = {1}
         /\ Invoked(r, FallbackOps) => PrimaryFailed(r)
         /\ ~PrimaryFailed(r) => ~Invoked(r, FallbackOps)
    /\ \A f \in Files :
         /\ requests[f] > 0 => calls[f] # <<>> /\ PrimaryFailed(calls[f][1])
         /\ files[f] = "ok" => requests[f] = 0

\* In one batch a file the primary decoder fails on was asked about and then
\* given to a fallback decoder, and a file the primary decoder reads was
\* processed.
C27_Witness ==
    /\ \E f \in Files :
         /\ requests[f] = 1
         /\ Len(calls[f]) = 2
         /\ Invoked(calls[f][2], FallbackOps)
    /\ \E f \in Files :
         /\ files[f] = "ok"
         /\ calls[f] # <<>>
         /\ requests[f] = 0


\* C28: with dynamic mode on, the threshold estimated from the file's energy
\* profile and dynamic_offset_db is the base threshold the mask is built on
\* (when a mask is built) and the threshold the boundaries are resolved
\* with; with dynamic mode off no estimate is computed and both are the
\* configured threshold_db.
C28_DynamicThresholdSupersedes ==
    \A r \in 1..Len(sliceRun.runs) :
      LET a == sliceRun.args
          run == sliceRun.runs[r]
          used == IF a.dynamic_enabled
                  THEN estimate_dynamic_threshold_db(a.profile, a.dynamic_offset_db)
                  ELSE a.threshold_db
      IN  /\ run.estimated <=> a.dynamic_enabled
          /\ a.dynamic_enabled => run.dynamic_threshold_db = Some(used)
          /\ run.resolve_threshold = used
          /\ run.mask_threshold = IF a.vad_enabled THEN Some(used) ELSE Nothing

\* A run with dynamic mode and the mask both on, whose estimate differs from
\* the configured threshold and was the base threshold of the mask.
C28_Witness ==
    /\ Len(sliceRun.runs) = 1
    /\ sliceRun.args.dynamic_enabled /\ sliceRun.args.vad_enabled
    /\ sliceRun.runs[1].estimated
    /\ sliceRun.runs[1].dynamic_threshold_db # Some(sliceRun.args.threshold_db)
    /\ sliceRun.runs[1].mask_threshold = sliceRun.runs[1].dynamic_threshold_db
    /\ sliceRun.runs[1].resolve_threshold = The(sliceRun.runs[1].dynamic_threshold_db)


\* C29: the hangover the mask is built with is 0 hops exactly when
\* vad_hangover_ms is 0; for a positive vad_hangover_ms it is at least 1 hop
\* and is vad_hangover_ms / hop_size rounded to a nearest integer, or 1 hop
\* when that quotient rounds to less than 1.
C29_HangoverRounding ==
    \A r \in 1..Len(sliceRun.runs) :
      LET ms == sliceRun.args.vad_hangover_ms
          hop == sliceRun.args.hop_size
          passed == sliceRun.runs[r].hangover_frames
      IN  /\ passed # Nothing <=> sliceRun.args.vad_enabled
          /\ passed # Nothing =>
               LET h == The(passed) IN
               /\ h = 0 <=> ms = 0
               /\ ms > 0 =>
                    /\ h >= 1
                    /\ \/ 2 * (hop * h - ms) <= hop /\ 2 * (ms - hop * h) <= hop
                       \/ h = 1 /\ 2 * ms <= hop

\* A mask built with a hangover that was rounded up to two hops or more.
C29_Witness ==
    /\ Len(sliceRun.runs) = 1
    /\ sliceRun.args.vad_enabled
    /\ sliceRun.runs[1].hangover_frames # Nothing
    /\ The(sliceRun.runs[1].hangover_frames) >= 2
    /\ The(sliceRun.runs[1].hangover_frames) * sliceRun.args.hop_size
         > sliceRun.args.vad_hangover_ms


\* C30: a run emits one record per chunk it exported: the indices are 0..n-1
\* in the order of the export, the output paths differ pairwise, start_ms and
\* end_ms of every record are known, and length_ms is end_ms - start_ms.
C30_OneRecordPerSegment ==
    \A r \in 1..Len(sliceRun.runs) :
      LET run == sliceRun.runs[r]
          records == run.records
      IN  /\ Len(records) = Len(run.chunks)
          /\ \A k \in 1..Len(records) :
               /\ records[k].index = k - 1
               /\ records[k].start_ms # Nothing
               /\ records[k].end_ms # Nothing
               /\ records[k].length_ms
                    = Some(The(records[k].end_ms) - The(records[k].start_ms))
          /\ \A j, k \in 1..Len(records) :
               j # k => records[j].output_path # records[k].output_path


\* The fallback mode the i-th call on file f is to be made with: the mode of
\* the options, and in ask mode "skip" first and then the choice.
ModeOfCall(f, i) ==
    IF options.fallback_mode # "ask" THEN options.fallback_mode
    ELSE IF i = 1 THEN "skip" ELSE choice[f]

\* C31, in every state of a started batch: the tasks are those of the worker's
\* own list, every call was made with the fallback mode of the batch's
\* options (in ask mode with the override for that call only), and when run()
\* has returned every file of that list has been handled, whatever the task
\* list holds by then.
C31_BatchState ==
    batches = 1 =>
      /\ \A f \in Files : st[f] # "none" <=> InList(f, filenames)
      /\ \A fi \in AllCalls :
           /\ InList(fi[1], filenames)
           /\ CallAt(fi).mode = ModeOfCall(fi[1], fi[2])
      /\ wtDone => \A f \in Files : InList(f, filenames) => st[f] = "finished"

\* C31, in every step: the start copies the task list as it is then, and no
\* later step changes the options or the file list of the batch.
C31_BatchStep ==
    /\ (batches = 0 /\ batches' = 1) => filenames' = taskList
    /\ batches = 1 => options' = options /\ filenames' = filenames

C31_BatchOptionsAndFilesFrozen == []C31_BatchState /\ [][C31_BatchStep]_vars

\* A batch in ask mode has ended, a file of it was called a second time with
\* the user's choice, and the task list is no longer the list the batch was
\* started with.
C31_Witness ==
    /\ wtDone
    /\ options.fallback_mode = "ask"
    /\ taskList # filenames
    /\ \E f \in Files : Len(calls[f]) = 2


\* The last call on f returned ok.
ReturnedOk(f) ==
    calls[f] # <<>> /\ LastCall(f).ret.kind = "return" /\ LastCall(f).ret.ok

\* The files of the batch that ended in success.
SucceededFiles == {f \in Files : Succeeded(f)}

\* C32, in every state: the remembered directory is the one remembered
\* before the batch or the directory returned for a file of the batch that
\* succeeded; while no call of the batch has returned ok it is the one
\* remembered before; once run() has returned and a file succeeded, it is the
\* directory of a file that succeeded, in single mode of the last such file
\* in input order.
C32_DirState ==
    /\ last_output_dir # EarlierDir =>
         \E f \in SucceededFiles : last_output_dir = LastCall(f).ret.out_dir
    /\ (\A f \in Files : ~ReturnedOk(f)) => last_output_dir = EarlierDir
    /\ (wtDone /\ SucceededFiles # {}) =>
         /\ \E f \in SucceededFiles : last_output_dir = LastCall(f).ret.out_dir
         /\ SingleMode =>
              \E f \in SucceededFiles :
                /\ \A g \in SucceededFiles : ~Before(f, g, filenames)
                /\ last_output_dir = LastCall(f).ret.out_dir

\* C32, in every step: the remembered directory is written only for a file
\* whose last call returned ok, with the directory that call returned.
C32_DirStep ==
    last_output_dir' # last_output_dir =>
      \E f \in Files :
        /\ st[f] \in {"write_dir", "proc_done"}
        /\ st'[f] \in {"returned", "finished"}
        /\ ReturnedOk(f)
        /\ last_output_dir' = LastCall(f).ret.out_dir

C32_DirOfSuccessOnly == []C32_DirState /\ [][C32_DirStep]_vars

\* A single-mode batch has ended in which a file failed after another had
\* succeeded; the directory of the one that succeeded is remembered.
C32_Witness ==
    /\ wtDone /\ SingleMode
    /\ \E f, g \in Files :
         /\ Before(f, g, filenames)
         /\ Succeeded(f)
         /\ errorEvents[g] # <<>>
         /\ last_output_dir = LastCall(f).ret.out_dir


\* C33: in every parallel and fallback mode no file ever has more than one
\* errorOccurred event against it, and a file that is finished has exactly
\* one if it ended in failure (its last call raised or returned not ok, the
\* user's skip included) and none if its last call returned ok.
C33_OneErrorPerFailedFile ==
    \A f \in Files :
      /\ Len(errorEvents[f]) <= 1
      /\ st[f] = "finished" =>
           Len(errorEvents[f]) = IF ReturnedOk(f) THEN 0 ELSE 1

\* A batch has ended in which a file succeeded with no event against it and
\* another failed with one.
C33_Witness ==
    /\ wtDone
    /\ \E f, g \in Files :
         /\ ReturnedOk(f) /\ errorEvents[f] = <<>>
         /\ ~ReturnedOk(g) /\ Len(errorEvents[g]) = 1


\* C34: every tuple process_audio_file returns is well-formed: ok is true
\* exactly when error is None and out_dir is a directory (the one passed in,
\* or the directory of the file), and ok is false exactly when error is not
\* None and out_dir is None.
C34_WellFormedResult ==
    \A fi \in AllCalls :
      LET ret == CallAt(fi).ret IN
      ret.kind = "return" =>
        /\ ret.ok <=> (ret.error = NoneVal /\ ret.out_dir # NoneVal)
        /\ ~ret.ok <=> (ret.error # NoneVal /\ ret.out_dir = NoneVal)
        /\ ret.ok => ret.out_dir \in (OutputDirs \ {NoneVal}) \cup {DirName(fi[1])}

\* A call returned a failure whose message is the empty string: an error
\* that is falsy but not None.
C34_Witness ==
    \E fi \in AllCalls :
      /\ CallAt(fi).ret.kind = "return"
      /\ ~CallAt(fi).ret.ok
      /\ CallAt(fi).ret.error = ""

\* ------------------------------------------------------------------- C35
\* C35: at most one batch runs at a time. From the start of the batch until
\* its worker has finished the processing flag is set; a step taken while the
\* flag is set, a start request included, starts no worker and leaves the
\* batch's files and counter target alone; and the step that resets the flag
\* is taken after the worker has finished, with the finished counter equal to
\* the number of files of the batch.
C35_FlagState ==
    /\ processing => batches = 1
    /\ (batches = 1 /\ ~wtDone) => processing
    /\ processing => workCount = Len(filenames)

C35_FlagStep ==
    /\ processing =>
          /\ batches' = batches
          /\ filenames' = filenames
          /\ workCount' = workCount
          /\ workFinished' >= workFinished
    /\ (processing /\ ~processing') =>
          /\ wtDone
          /\ workFinished = workCount
          /\ workFinished = Len(filenames)

C35_OneBatchAtATime == []C35_FlagState /\ [][C35_FlagStep]_vars

\* The flag has been reset at the end of a batch of NumFiles files in which
\* a file failed.
C35_Witness ==
    /\ batches = 1
    /\ ~processing
    /\ wtDone
    /\ workFinished = NumFiles
    /\ \E f \in Files : errorEvents[f] # <<>>

\* ------------------------------------------------------------------- C36
\* C36: every batch terminates. When every call returns, every queued event
\* is dispatched and every dialog is answered, a batch that was started
\* reaches the state in which every file of the batch has had its finished
\* event, the finished counter equals the number of files and the processing
\* flag is reset, in single, thread and process mode and with fewer pool
\* workers than files that need a choice.
BatchOver ==
    /\ ~processing
    /\ wtDone
    /\ workFinished = workCount
    /\ workCount = Len(filenames)
    /\ \A f \in Files : InList(f, filenames) => st[f] = "finished"

C36_BatchTerminates == processing ~> BatchOver

\* A thread-mode batch with one pool worker is over after the user was asked
\* about each of its NumFiles files.
C36_Witness ==
    /\ BatchOver
    /\ ThreadMode
    /\ options.parallel_jobs = 1
    /\ workCount = NumFiles
    /\ \A f \in Files : requests[f] = 1

\* ------------------------------------------------------------------- C37
\* C37: in fallback mode ask at most one choice request is issued per file,
\* and a file is in _request_fallback_choice or has had its request only
\* after its first call, made with mode skip, returned the failure of the
\* primary decoder. When the first call raises, in the export for instance,
\* the exception is the file's one error event, no request is issued and no
\* second call is made.
InRequest(f) == st[f] \in BridgePositions \cup {"call2"}

C37_RequestAfterPrimaryFailure ==
    \A f \in Files :
      /\ requests[f] <= 1
      /\ (requests[f] = 1 \/ InRequest(f)) =>
            /\ Len(calls[f]) >= 1
            /\ calls[f][1].mode = "skip"
            /\ calls[f][1].ret.kind = "return"
            /\ ~calls[f][1].ret.ok
            /\ PrimaryFailed(calls[f][1])
      /\ (Len(calls[f]) >= 1 /\ calls[f][1].ret.kind = "raise") =>
            /\ requests[f] = 0
            /\ ~InRequest(f)
            /\ Len(calls[f]) = 1
            /\ errorEvents[f] = <<calls[f][1].ret.error>>

\* The batch is over; the export of one file raised in the first call and the
\* file was reported without a request.
C37_Witness ==
    /\ AskMode
    /\ wtDone
    /\ \E f \in Files :
         /\ st[f] = "finished"
         /\ calls[f][1].ret.kind = "raise"
         /\ Invoked(calls[f][1], ExportOps)
         /\ requests[f] = 0
         /\ errorEvents[f] = <<calls[f][1].ret.error>>

\* ------------------------------------------------------------------- C38
\* C38: over all the calls made for a file in a batch soundfile.read is
\* attempted at most once, in every fallback mode, and after a choice of
\* ffmpeg or librosa the audio of a successful second call is the one
\* decoded by the chosen decoder.
PrimaryAttempts(f) ==
    {i \in 1..Len(calls[f]) : Invoked(calls[f][i], {"soundfile_read"})}

C38_PrimaryAttemptedOnce ==
    \A f \in Files :
      /\ Cardinality(PrimaryAttempts(f)) <= 1
      /\ (choice[f] \in {"ffmpeg", "librosa"} /\ Len(calls[f]) = 2
            /\ calls[f][2].ret.kind = "return" /\ calls[f][2].ret.ok)
           => calls[f][2].audio = choice[f]

\* ------------------------------------------------------------------- C39
\* C39: for every list of silence intervals that is sorted by start, without
\* overlap and possibly with touching neighbours, every range _get_ranges
\* returns is non-empty: its start in ms is below its end in ms.
C39_RangesNonEmpty ==
    rangesCall.returned =>
      \A i \in 1..Len(rangesCall.ranges) :
         rangesCall.ranges[i][1] < rangesCall.ranges[i][2]

====
